---- MODULE Spec2Model ----
(***************************************************************************)
(* Model of the ammonia-battery arbitrage optimiser                        *)
(* (src/ammonia_battery/optimisation/engine.py) and of the scenario runner *)
(* that drives it (src/ammonia_battery/scenarios/manager.py).              *)
(*                                                                         *)
(* Quantities that are floats in the program are exact rationals here,     *)
(* written <<numerator, denominator>> in lowest terms with a positive      *)
(* denominator.  The continuous decision variables of the MILP are sampled *)
(* on finite grids; the grids are the bounds of the model.                 *)
(***************************************************************************)
EXTENDS Integers, Sequences, FiniteSets, TLC

VARIABLES
    entry,                \* "direct": optimize() called by a client; "scenario": through run_single_scenario
    a2p_technology,       \* constructor argument
    time_interval_hours,  \* constructor argument (rational, hours)
    columns,              \* columns present in timeseries_df
    original_interval,    \* sampling interval of timeseries_df (rational, hours)
    price_in,             \* PRICE column of timeseries_df, one rational per row
    pc,                   \* position in optimize() / run_single_scenario()
    model_created,        \* create_optimization_model() has returned
    data,                 \* the DataPortal built by prepare_data, or NoData
    instance_created,     \* model.create_instance(data) has returned
    solver_calls,         \* number of solver.solve invocations
    results,              \* <<solver status, termination condition>> or NoResults
    solution,             \* variable values loaded into the instance, or NoSolution
    values_read,          \* some pyo.value(instance.<Var>) has been evaluated
    objective_value,      \* pyo.value(instance.objective) as printed by process_results
    optimization_results, \* self.optimization_results
    returned,             \* value returned by optimize(): "pending", None or the results dict
    steps_done,           \* downstream steps of run_single_scenario executed so far, in order
    scenario_returned,    \* value returned by run_single_scenario
    raised,               \* exception that ended the run, or "none"
    capacity_bounds,      \* upper bounds of OPTIMAL_NH3_CAPACITY of the instances solved
    optima,               \* the optimal objective value of each instance solved so far
    years,                \* <<base_year, target_year>> of a cost-index adjustment
    report,               \* what run_single_scenario hands to generate_summary_report
    storage_capacity,     \* constructor argument (tonnes)
    call_log              \* the outcome of each earlier optimize() call on this optimizer

vars == <<entry, a2p_technology, time_interval_hours, columns, original_interval,
          price_in, pc, model_created, data, instance_created, solver_calls,
          results, solution, values_read, objective_value, optimization_results,
          returned,
          steps_done, scenario_returned, raised, capacity_bounds, optima, years, report,
          storage_capacity, call_log>>

\* the variables that no step of optimize() or of run_single_scenario changes
study_vars == <<capacity_bounds, optima, years, storage_capacity, call_log>>

(***************************************************************************)
(* Exact rational arithmetic (Python float arithmetic without rounding).   *)
(***************************************************************************)
Abs(x) == IF x < 0 THEN -x ELSE x

RECURSIVE GCD(_, _)
GCD(a, b) == IF b = 0 THEN a ELSE GCD(b, a % b)

Rat(n, d) ==
    LET s == IF d < 0 THEN -1 ELSE 1
        g == GCD(Abs(n), Abs(d))
    IN  <<(s * n) \div g, (s * d) \div g>>

Num(x) == x[1]
Den(x) == x[2]
Zero == <<0, 1>>
One == <<1, 1>>
FromInt(i) == <<i, 1>>

LCM(a, b) == (a \div GCD(a, b)) * b

RAdd(x, y) ==
    LET l == LCM(Den(x), Den(y))
    IN  Rat(Num(x) * (l \div Den(x)) + Num(y) * (l \div Den(y)), l)
RNeg(x) == <<-Num(x), Den(x)>>
RSub(x, y) == RAdd(x, RNeg(y))
RMul(x, y) ==
    LET g1 == GCD(Abs(Num(x)), Den(y))
        g2 == GCD(Abs(Num(y)), Den(x))
    IN  Rat((Num(x) \div g1) * (Num(y) \div g2), (Den(x) \div g2) * (Den(y) \div g1))
RInv(x) == Rat(Den(x), Num(x))
RDiv(x, y) == RMul(x, RInv(y))
RLe(x, y) == Num(RSub(x, y)) <= 0
RLt(x, y) == Num(RSub(x, y)) < 0
RGe(x, y) == RLe(y, x)
RGt(x, y) == RLt(y, x)
RAbs(x) == <<Abs(Num(x)), Den(x)>>

RECURSIVE RSum(_)
RSum(s) == IF s = <<>> THEN Zero ELSE RAdd(s[1], RSum(Tail(s)))


(***************************************************************************)
(* Bounds of the model.                                                    *)
(***************************************************************************)
MaxRows == 2         \* rows of the input series
PowerSteps == 1      \* the power grids divide the maximum charging power in this many steps
MaxLevelQuanta == 1  \* the inventory grid reaches this many charging quanta

(***************************************************************************)
(* Physical configuration: process_units/systems.py.                       *)
(***************************************************************************)
None == [kind |-> "None"]              \* Python's None
Pending == [kind |-> "pending"]        \* the call has not returned
NoData == [kind |-> "NoData"]          \* no DataPortal yet
NoSolution == [kind |-> "NoSolution"]  \* no variable values loaded
NoResults == <<>>                      \* solver.solve has not returned
NotComputed == <<>>
NoColumn == "none"

Technologies == {"direct_combustion", "blend_combustion", "h2_combustion"}
UnsupportedTechnology == "fuel_cell"

p2a_capacity == 100
a2p_capacity == 100
default_storage_capacity == 100000  \* storage_capacity of __init__
lhv_NH3 == <<93, 5>>                          \* 18.6 MJ/kg
electrolyser_energy_consumption == <<353, 10>>  \* 35.3 MJ/kg NH3
asu_energy_consumption == <<37, 50>>            \* 0.74 MJ/kg NH3
synthesis_loop_energy_consumption ==            \* 0.763 + 0.587 + 0.294 MJ/kg NH3
    RAdd(RAdd(<<763, 1000>>, <<587, 1000>>), <<294, 1000>>)

\* PowerToAmmonia.calc_p2a_efficiency: overall_efficiency
calc_p2a_efficiency ==
    LET total_energy_consumption ==
            RAdd(RAdd(electrolyser_energy_consumption, asu_energy_consumption),
                 synthesis_loop_energy_consumption)
    IN  RDiv(lhv_NH3, total_energy_consumption)

\* AmmoniaToPower.__init__: efficiency of the selected power generation
power_generation_efficiency(tech) ==
    CASE tech = "direct_combustion" -> <<3, 5>>      \* 0.60
      [] tech = "blend_combustion"  -> <<287, 500>>  \* 0.574
      [] tech = "h2_combustion"     -> <<21, 40>>    \* 0.525

min_charging_threshold == 0
min_discharging_threshold == 0
CapacityUpperBound == 100000

RequiredColumns == {"DATETIME", "PRICE", "DEMAND", "WIND", "CURTAILMENT", "CARBON_BASED_FUELS"}
\* the columns prepare_data reads unconditionally, in the order it reads them
SeriesColumns == <<"PRICE", "DEMAND", "WIND", "CURTAILMENT", "CARBON_BASED_FUELS">>

(***************************************************************************)
(* prepare_data: static parameters bound into the DataPortal.              *)
(***************************************************************************)
_get_timestep(tih) == tih

static_params(tech, tih) ==
    [MAXIMUM_CHARGING_POWER    |-> FromInt(p2a_capacity),
     MAXIMUM_DISCHARGING_POWER |-> FromInt(a2p_capacity),
     CHARGING_EFFICIENCY       |-> calc_p2a_efficiency,
     DISCHARGING_EFFICIENCY    |-> power_generation_efficiency(tech),
     TIMESTEP                  |-> _get_timestep(tih),
     MIN_CHARGING_THRESHOLD    |-> FromInt(min_charging_threshold),
     MIN_DISCHARGING_THRESHOLD |-> FromInt(min_discharging_threshold),
     LHV_NH3                   |-> lhv_NH3,
     NH3_CONVERSION_FACTOR     |-> RDiv(FromInt(3600), RMul(lhv_NH3, FromInt(1000)))]

(***************************************************************************)
(* create_optimization_model: the constraint rules.  m holds the bound     *)
(* parameters, s the values of the decision variables: s.CAP is            *)
(* OPTIMAL_NH3_CAPACITY, s.INIT is OPTIMAL_INITIAL_NH3_LEVEL, s.CP, s.DP,  *)
(* s.LVL, s.ION, s.DON are CHARGING_POWER, DISCHARGING_POWER, NH3_LEVEL,   *)
(* IS_CHARGING_ON, IS_DISCHARGING_ON indexed by the timestep 0..T-1.       *)
(* CHARGING_STARTED and CHARGING_STOPPED occur in no constraint, in the    *)
(* objective or in the results, and are left out.                          *)
(***************************************************************************)
\* the two mass-flow terms of nh3_balance_rule
charge_term(m, cp) ==
    RMul(RMul(RMul(cp, m.CHARGING_EFFICIENCY), m.TIMESTEP), m.NH3_CONVERSION_FACTOR)
\* mutation: the discharging efficiency multiplies instead of dividing
discharge_term_inverted(m, dp) ==
    RMul(RMul(RMul(dp, m.DISCHARGING_EFFICIENCY), m.TIMESTEP), m.NH3_CONVERSION_FACTOR)
discharge_term(m, dp) ==
    RMul(RMul(RMul(dp, RInv(m.DISCHARGING_EFFICIENCY)), m.TIMESTEP), m.NH3_CONVERSION_FACTOR)

\* Var declarations: within=NonNegativeReals and bounds
\* mutation: the two elements of the bounds tuple are swapped
capacity_domain_bounded_swapped(s, B) == RGe(s.CAP, Zero) /\ RGe(s.CAP, B) /\ RLe(s.CAP, Zero)
\* OPTIMAL_NH3_CAPACITY with the upper bound B in place of the literal
\* (within=NonNegativeReals, then the lower and the upper element of bounds)
capacity_domain_bounded(s, B) == RGe(s.CAP, Zero) /\ RGe(s.CAP, Zero) /\ RLe(s.CAP, B)
capacity_domain(s) == capacity_domain_bounded(s, FromInt(CapacityUpperBound))
\* mutation: the initial level is fixed at empty instead of being free
initial_level_domain_empty(s) == s.INIT = Zero
initial_level_domain(s) == RGe(s.INIT, Zero)
charging_power_domain(m, s, t) == RGe(s.CP[t], Zero) /\ RLe(s.CP[t], m.MAXIMUM_CHARGING_POWER)
discharging_power_domain(m, s, t) == RGe(s.DP[t], Zero) /\ RLe(s.DP[t], m.MAXIMUM_DISCHARGING_POWER)
nh3_level_domain(s, t) == RGe(s.LVL[t], Zero)

\* mutation: the capacity ceiling is written the wrong way round
storage_capacity_constraint_rule_reversed(s, t) == RGe(s.LVL[t], s.CAP)
storage_capacity_constraint_rule(s, t) == RLe(s.LVL[t], s.CAP)

\* mutation: the initial level is pinned to the capacity
initial_storage_constraint_rule_full(s) == s.INIT = s.CAP
initial_storage_constraint_rule(s) == RLe(s.INIT, s.CAP)

\* mutation: the first timestep is pinned to the initial level
nh3_balance_rule_pinned(m, s, t) ==
    IF t = 0
    THEN s.LVL[t] = s.INIT
    ELSE s.LVL[t] = RSub(RAdd(s.LVL[t - 1], charge_term(m, s.CP[t])), discharge_term(m, s.DP[t]))

nh3_balance_rule(m, s, t) ==
    IF t = 0
    THEN s.LVL[t] = RSub(RAdd(s.INIT, charge_term(m, s.CP[t])), discharge_term(m, s.DP[t]))
    ELSE s.LVL[t] = RSub(RAdd(s.LVL[t - 1], charge_term(m, s.CP[t])), discharge_term(m, s.DP[t]))

\* mutation: the closure reads the first element of DATETIME instead of the last
cyclical_storage_constraint_rule_first(s, T) == s.LVL[0] = s.INIT
cyclical_storage_constraint_rule(s, T) == s.LVL[T - 1] = s.INIT

min_charging_rule(m, s, t) ==
    RGe(s.CP[t], RMul(RMul(m.MIN_CHARGING_THRESHOLD, m.MAXIMUM_CHARGING_POWER), FromInt(s.ION[t])))

\* mutation: the upper bound forgets the activity flag
max_charging_rule_unflagged(m, s, t) == RLe(s.CP[t], m.MAXIMUM_CHARGING_POWER)
max_charging_rule(m, s, t) ==
    RLe(s.CP[t], RMul(m.MAXIMUM_CHARGING_POWER, FromInt(s.ION[t])))

min_discharging_rule(m, s, t) ==
    RGe(s.DP[t], RMul(RMul(m.MIN_DISCHARGING_THRESHOLD, m.MAXIMUM_DISCHARGING_POWER), FromInt(s.DON[t])))

max_discharging_rule(m, s, t) ==
    RLe(s.DP[t], RMul(m.MAXIMUM_DISCHARGING_POWER, FromInt(s.DON[t])))

\* mutation: one of the two flags must be on
no_simultaneous_operation_rule_busy(s, t) == s.ION[t] + s.DON[t] = 1
\* mutation: both flags may be on
no_simultaneous_operation_rule_both(s, t) == s.ION[t] + s.DON[t] <= 2
no_simultaneous_operation_rule(s, t) == s.ION[t] + s.DON[t] <= 1

\* mutation: the revenue term forgets the price
RECURSIVE profit_upto_unpriced_revenue(_, _, _, _)
profit_upto_unpriced_revenue(m, price, s, n) ==
    IF n = 0 THEN Zero
    ELSE RAdd(profit_upto_unpriced_revenue(m, price, s, n - 1),
              RSub(RMul(s.DP[n - 1], m.TIMESTEP),
                   RMul(RMul(price[n - 1], s.CP[n - 1]), m.TIMESTEP)))
operational_profit_rule_unpriced_revenue(m, price, s, T) ==
    profit_upto_unpriced_revenue(m, price, s, T)

\* operational_profit_rule: the objective expression
RECURSIVE profit_upto(_, _, _, _)
profit_upto(m, price, s, n) ==
    IF n = 0 THEN Zero
    ELSE RAdd(profit_upto(m, price, s, n - 1),
              RSub(RMul(RMul(price[n - 1], s.DP[n - 1]), m.TIMESTEP),
                   RMul(RMul(price[n - 1], s.CP[n - 1]), m.TIMESTEP)))
operational_profit_rule(m, price, s, T) == profit_upto(m, price, s, T)


(***************************************************************************)
(* The solver.  solver.solve explores assignments of the decision          *)
(* variables; the continuous variables are sampled on grids built around   *)
(* the mass moved by one charging step, with candidates below zero and     *)
(* above the maxima so that the domains and bounds do the rejecting.       *)
(***************************************************************************)
power_step(m) == RDiv(m.MAXIMUM_CHARGING_POWER, FromInt(PowerSteps))
level_quantum(m) == charge_term(m, power_step(m))
\* the discharging power that removes exactly one quantum of mass
discharge_step(m) == RDiv(level_quantum(m), discharge_term(m, One))

ChargeGrid(m) == {RMul(FromInt(k), power_step(m)) : k \in -1..(PowerSteps + 1)}
DischargeGrid(m) ==
    {RMul(FromInt(k), discharge_step(m)) : k \in -1..(PowerSteps + 1)}
        \cup {RAdd(m.MAXIMUM_DISCHARGING_POWER, power_step(m))}
LevelGrid(m) == {RMul(FromInt(k), level_quantum(m)) : k \in -1..MaxLevelQuanta}
CapacityGrid(m) ==
    LevelGrid(m) \cup {RMul(FromInt(MaxLevelQuanta + 1), level_quantum(m)),
                       FromInt(CapacityUpperBound), FromInt(CapacityUpperBound + 1)}

Ext(f, t, v) == [i \in 0..t |-> IF i = t THEN v ELSE f[i]]

\* every constraint and domain that is indexed by the timestep t
step_constraints(m, s, t) ==
    /\ charging_power_domain(m, s, t)
    /\ discharging_power_domain(m, s, t)
    /\ nh3_level_domain(s, t)
    /\ min_charging_rule(m, s, t)
    /\ max_charging_rule(m, s, t)
    /\ min_discharging_rule(m, s, t)
    /\ max_discharging_rule(m, s, t)
    /\ no_simultaneous_operation_rule(s, t)
    /\ nh3_balance_rule(m, s, t)
    /\ storage_capacity_constraint_rule(s, t)

design_constraints(s) ==
    /\ capacity_domain(s)
    /\ initial_level_domain(s)
    /\ initial_storage_constraint_rule(s)

\* the constraints on the powers and flags of one timestep, which involve no
\* other timestep: candidates <<CP, DP, ION, DON>> that pass them
power_constraints(m, s, t) ==
    /\ charging_power_domain(m, s, t)
    /\ discharging_power_domain(m, s, t)
    /\ min_charging_rule(m, s, t)
    /\ max_charging_rule(m, s, t)
    /\ min_discharging_rule(m, s, t)
    /\ max_discharging_rule(m, s, t)
    /\ no_simultaneous_operation_rule(s, t)

StepChoices(m) ==
    {x \in ChargeGrid(m) \X DischargeGrid(m) \X {0, 1} \X {0, 1} :
        power_constraints(m, [CP |-> <<x[1]>>, DP |-> <<x[2]>>,
                              ION |-> <<x[3]>>, DON |-> <<x[4]>>], 1)}

Extensions(p, t, choices, levels) ==
    {[CAP |-> p.CAP, INIT |-> p.INIT,
      CP |-> Ext(p.CP, t, x[1][1]), DP |-> Ext(p.DP, t, x[1][2]),
      ION |-> Ext(p.ION, t, x[1][3]), DON |-> Ext(p.DON, t, x[1][4]),
      LVL |-> Ext(p.LVL, t, x[2])] :
        x \in choices \X levels}

DesignChoices(m) ==
    {[CAP |-> d[1], INIT |-> d[2], CP |-> <<>>, DP |-> <<>>,
      ION |-> <<>>, DON |-> <<>>, LVL |-> <<>>] :
        d \in {e \in CapacityGrid(m) \X LevelGrid(m) :
                  design_constraints([CAP |-> e[1], INIT |-> e[2]])}}

\* assignments to the design variables and to timesteps 0..n-1 that satisfy
\* every constraint indexed by those timesteps
RECURSIVE PartialAssignments(_, _, _, _, _)
PartialAssignments(m, n, designs, choices, levels) ==
    IF n = 0
    THEN designs
    ELSE LET prev == PartialAssignments(m, n - 1, designs, choices, levels)
         IN  UNION {{c \in Extensions(p, n - 1, choices, levels) :
                        step_constraints(m, c, n - 1)} : p \in prev}

\* the feasible region of the instance with horizon 0..T-1 (T >= 1)
FeasibleSolutions(m, T) ==
    {s \in PartialAssignments(m, T, DesignChoices(m), StepChoices(m), LevelGrid(m)) :
        cyclical_storage_constraint_rule(s, T)}

\* the feasible region when the capacity variable is declared with upper bound B
design_constraints_bounded(s, B) ==
    /\ capacity_domain_bounded(s, B)
    /\ initial_level_domain(s)
    /\ initial_storage_constraint_rule(s)

CapacityGridBounded(m, B) ==
    LevelGrid(m) \cup {RMul(FromInt(MaxLevelQuanta + 1), level_quantum(m)), B, RAdd(B, One)}

DesignChoicesBounded(m, B) ==
    {[CAP |-> d[1], INIT |-> d[2], CP |-> <<>>, DP |-> <<>>,
      ION |-> <<>>, DON |-> <<>>, LVL |-> <<>>] :
        d \in {e \in CapacityGridBounded(m, B) \X LevelGrid(m) :
                  design_constraints_bounded([CAP |-> e[1], INIT |-> e[2]], B)}}

FeasibleSolutionsBounded(m, T, B) ==
    {s \in PartialAssignments(m, T, DesignChoicesBounded(m, B), StepChoices(m), LevelGrid(m)) :
        cyclical_storage_constraint_rule(s, T)}

TimeIntervals == {<<1, 2>>, <<1, 1>>}

\* f with every value computed, once
Tabulated(f) == f @@ <<>>

FeasibleTable ==
    Tabulated([tech \in Technologies, tih \in TimeIntervals, T \in 1..MaxRows |->
                  FeasibleSolutions(static_params(tech, tih), T)])


(***************************************************************************)
(* Inputs.                                                                 *)
(***************************************************************************)
PriceValues == {<<-1, 1>>, <<0, 1>>, <<2, 1>>}
PriceSeries == UNION {[1..n -> PriceValues] : n \in 0..MaxRows}
\* the sampling intervals of the input series, in hours
OriginalIntervals == {<<1, 4>>, <<1, 2>>, <<1, 1>>}
\* a series sampled w times as finely: every row stands w times
Repeated(seq, w) == [i \in 1..(Len(seq) * w) |-> seq[((i - 1) \div w) + 1]]

\* the other numeric columns of row i of the input: demand and wind tell the
\* rows apart, and power is curtailed in the rows whose price is negative
input_row(i, price) ==
    [PRICE              |-> price,
     DEMAND             |-> FromInt(30 + i),
     WIND               |-> FromInt(10 * i),
     CURTAILMENT        |-> IF RLt(price, Zero) THEN FromInt(50) ELSE Zero,
     CARBON_BASED_FUELS |-> FromInt(20)]
ColumnSets == {RequiredColumns} \cup {RequiredColumns \ {c} : c \in RequiredColumns}

SolverStatuses == {"ok", "warning", "error", "aborted", "unknown"}
TerminationConditions ==
    {"optimal", "feasible", "infeasible", "unbounded", "maxTimeLimit", "other"}
mipgap == <<1, 100>>

\* mutation: the test looks at the solver status only
Accepted_status_only(r) == r[1] = "ok"
\* the test of optimize() on the solver's results object
Accepted(r) == r[1] = "ok" /\ (r[2] = "optimal" \/ r[2] = "feasible")

(***************************************************************************)
(* prepare_data: resampling.  int(time_interval_hours) hours is the        *)
(* resampling frequency; the series is taken to start on a window          *)
(* boundary, so each window holds frequency / original_interval rows.      *)
(***************************************************************************)
resample_frequency(tih) == Num(tih) \div Den(tih)

rows_per_window(tih, orig) == Num(RDiv(FromInt(resample_frequency(tih)), orig))

Min(a, b) == IF a < b THEN a ELSE b

RECURSIVE SumRange(_, _, _)
SumRange(seq, lo, hi) == IF lo > hi THEN Zero ELSE RAdd(seq[lo], SumRange(seq, lo + 1, hi))

resample_mean(seq, w) ==
    LET n == Len(seq)
        windows == (n + w - 1) \div w
    IN  [j \in 1..windows |->
            LET lo == (j - 1) * w + 1
                hi == Min(n, j * w)
            IN  RDiv(SumRange(seq, lo, hi), FromInt(hi - lo + 1))]

\* a numeric column of df after the datetime handling of prepare_data
prepared_column(cols, tih, orig, column) ==
    IF "DATETIME" \in cols /\ tih # orig
    THEN resample_mean(column, rows_per_window(tih, orig))
    ELSE column

\* the PRICE column of df after the datetime handling of prepare_data
prepared_price(cols, tih, orig, price) == prepared_column(cols, tih, orig, price)

\* the first of the series columns that df lacks, or NoColumn
RECURSIVE first_missing(_, _)
first_missing(cols, i) ==
    IF i > Len(SeriesColumns) THEN NoColumn
    ELSE IF SeriesColumns[i] \notin cols THEN SeriesColumns[i]
    ELSE first_missing(cols, i + 1)

\* outcome of prepare_data: an exception name, or "ok".  df['DATETIME'].iloc[1]
\* needs two rows; a frequency of int(time_interval_hours) = 0 hours makes
\* resample raise; a missing series column raises KeyError
prepare_data_outcome(cols, tih, orig, price) ==
    IF "DATETIME" \in cols /\ Len(price) < 2 THEN "IndexError"
    ELSE IF "DATETIME" \in cols /\ tih # orig /\ resample_frequency(tih) = 0 THEN "ResampleError"
    ELSE IF first_missing(cols, 1) # NoColumn THEN "KeyError"
    ELSE "ok"

\* timeseries_df: the rows of the input, built from its PRICE column
timeseries_rows(price) == [i \in 1..Len(price) |-> input_row(i, price[i])]

\* the DataPortal: the horizon, the five series and the static parameters
prepare_data(tech, cols, tih, orig, price) ==
    LET df == timeseries_rows(price)
        df_price == prepared_price(cols, tih, orig, price)
        bound(c) == prepared_column(cols, tih, orig, [i \in 1..Len(df) |-> df[i][c]])
        time_indices == 0..(Len(df_price) - 1)
    IN  [T      |-> Len(df_price),
         PRICE  |-> [t \in time_indices |-> df_price[t + 1]],
         DEMAND |-> [t \in time_indices |-> bound("DEMAND")[t + 1]],
         WIND   |-> [t \in time_indices |-> bound("WIND")[t + 1]],
         CURTAILMENT |-> [t \in time_indices |-> bound("CURTAILMENT")[t + 1]],
         CARBON_BASED_FUELS |-> [t \in time_indices |-> bound("CARBON_BASED_FUELS")[t + 1]],
         params |-> static_params(tech, tih)]

\* the input series: up to MaxRows rows, and where prepare_data resamples
\* also the same series sampled as finely as a window has rows
InputSeries(cols, tih, orig) ==
    IF "DATETIME" \in cols /\ tih # orig /\ resample_frequency(tih) # 0
    THEN PriceSeries \cup {Repeated(p, rows_per_window(tih, orig)) : p \in PriceSeries}
    ELSE PriceSeries

(***************************************************************************)
(* process_results: the ledger and the design summary.                     *)
(***************************************************************************)
\* mutation: the cost forgets the timestep duration
charging_cost_of_power(charging_power, timestep, price) == RMul(charging_power, price)
charging_cost_of(charging_power, timestep, price) ==
    RMul(RMul(charging_power, timestep), price)
discharging_revenue_of(discharging_power, timestep, price) ==
    RMul(RMul(discharging_power, timestep), price)

\* mutation: the produced mass forgets the charging efficiency
nh3_produced_of_power(m, charging_power, timestep) ==
    RMul(RMul(charging_power, timestep), m.NH3_CONVERSION_FACTOR)
nh3_produced_of(m, charging_power, timestep) ==
    RMul(RMul(RMul(charging_power, timestep), m.CHARGING_EFFICIENCY),
         m.NH3_CONVERSION_FACTOR)
\* mutation: the consumed mass multiplies by the discharging efficiency
nh3_consumed_of_inverted(m, discharging_power, timestep) ==
    RMul(RMul(RMul(discharging_power, timestep), m.DISCHARGING_EFFICIENCY),
         m.NH3_CONVERSION_FACTOR)
nh3_consumed_of(m, discharging_power, timestep) ==
    RMul(RMul(RMul(discharging_power, timestep), RInv(m.DISCHARGING_EFFICIENCY)),
         m.NH3_CONVERSION_FACTOR)

result_row(d, s, cols, orig, t) ==
    LET m == d.params
        timestep == m.TIMESTEP
        charging_power == s.CP[t]
        discharging_power == s.DP[t]
        price == d.PRICE[t]
        nh3_produced == nh3_produced_of(m, charging_power, timestep)
        nh3_consumed == nh3_consumed_of(m, discharging_power, timestep)
        charging_cost == charging_cost_of(charging_power, timestep, price)
        discharging_revenue == discharging_revenue_of(discharging_power, timestep, price)
    IN  [Time |-> IF "DATETIME" \in cols
                  THEN <<"datetime", RMul(FromInt(t), orig)>>  \* hours after the first input row
                  ELSE <<"index", t>>,
         TimeStep |-> t,
         Price |-> price,
         Charging_Power_MW |-> charging_power,
         Discharging_Power_MW |-> discharging_power,
         NH3_Level_Tonnes |-> s.LVL[t],
         NH3_Produced_Tonnes |-> nh3_produced,
         NH3_Consumed_Tonnes |-> nh3_consumed,
         Charging_Cost |-> charging_cost,
         Discharging_Revenue |-> discharging_revenue,
         Net_Revenue |-> RSub(discharging_revenue, charging_cost),
         Is_Charging |-> s.ION[t],
         Is_Discharging |-> s.DON[t],
         Demand |-> d.DEMAND[t],
         Wind |-> d.WIND[t],
         Curtailment |-> d.CURTAILMENT[t],
         Carbon_based_fuels |-> d.CARBON_BASED_FUELS[t]]

\* mutation: the running sum does not accumulate
cumsum_last(col, n) == IF n = 0 THEN Zero ELSE col[n]
\* Series.cumsum: the value at row n
RECURSIVE cumsum(_, _)
cumsum(col, n) == IF n = 0 THEN Zero ELSE RAdd(cumsum(col, n - 1), col[n])

\* A capital cost depends on cost correlations with real exponents: it is
\* the tuple of the word "capex", the unit costed and the size it is costed
\* at, which determine it.  NH3Storage._calculate_total_capex: the cost grows
\* strictly with the capacity and is 0 for capacity 0.
NH3Storage_sized_capex(max_storage_capacity) ==
    IF max_storage_capacity = Zero THEN Zero
    ELSE <<"capex", "storage", max_storage_capacity>>

\* AmmoniaBattery.calculate_total_system_costs, as kept in self.system_costs
calculate_total_system_costs(technology, capacity) ==
    [p2a_capex |-> <<"capex", "p2a", FromInt(p2a_capacity)>>,
     storage_capex |-> NH3Storage_sized_capex(capacity),
     a2p_capex |-> <<"capex", technology, FromInt(a2p_capacity)>>]

\* mutation: the storage cost of the constructor's battery is reused
final_storage_capex_of_battery(optimal_capacity, system_costs) == system_costs.storage_capex
\* temp_storage = NH3Storage(max_storage_capacity=optimal_capacity).sized_capex
final_storage_capex(optimal_capacity, system_costs) == NH3Storage_sized_capex(optimal_capacity)

calculate_system_economics_with_optimal_storage(results_dict, system_costs) ==
    LET optimal_capacity == results_dict.optimal_design.optimal_capacity_tonnes
        operational_profit == results_dict.economics.period_operational_profit
        period_hours == results_dict.economics.period_hours
        storage_capex == final_storage_capex(optimal_capacity, system_costs)
        p2a_capex == system_costs.p2a_capex
        a2p_capex == system_costs.a2p_capex
        total_capex == <<"total_capex", p2a_capex, storage_capex, a2p_capex>>
        time_fraction == RDiv(period_hours, FromInt(366 * 24))
        \* the quotient is kept unevaluated: its numerator leaves the integers
        annual_operational_profit ==
            IF RGt(time_fraction, Zero)
            THEN <<"quotient", operational_profit, time_fraction>> ELSE Zero
    IN  [optimal_storage_capex |-> storage_capex,
         p2a_capex |-> p2a_capex,
         a2p_capex |-> a2p_capex,
         total_system_capex |-> total_capex,
         annualized_capex |-> <<"annualized", total_capex, "crf">>,
         total_annual_opex |-> <<"opex", total_capex, "2%">>,
         annual_operational_profit |-> annual_operational_profit,
         net_annual_profit |-> <<"net_annual_profit", annual_operational_profit, total_capex>>,
         period_operational_profit |-> operational_profit,
         period_hours |-> period_hours,
         time_fraction |-> time_fraction]

process_results(d, s, cols, orig, system_costs) ==
    LET results_df == [i \in 1..d.T |-> result_row(d, s, cols, orig, i - 1)]
        produced == [i \in 1..d.T |-> results_df[i].NH3_Produced_Tonnes]
        consumed == [i \in 1..d.T |-> results_df[i].NH3_Consumed_Tonnes]
        net == [i \in 1..d.T |-> results_df[i].Net_Revenue]
        total_operational_profit == cumsum(net, d.T)
        preliminary_results ==
            [operational_results |->
                [i \in 1..d.T |->
                    results_df[i] @@
                    [Cumulative_NH3_Produced |-> cumsum(produced, i),
                     Cumulative_NH3_Consumed |-> cumsum(consumed, i),
                     Cumulative_Net_Revenue |-> cumsum(net, i)]],
             optimal_design |->
                [optimal_capacity_tonnes |-> s.CAP,
                 optimal_initial_level_tonnes |-> s.INIT],
             economics |->
                [period_operational_profit |-> total_operational_profit,
                 period_hours |-> RMul(FromInt(d.T), d.params.TIMESTEP)]]
    IN  [preliminary_results EXCEPT
            !.economics = calculate_system_economics_with_optimal_storage(
                              preliminary_results, system_costs)]


(***************************************************************************)
(* The state machine.                                                      *)
(***************************************************************************)
Init ==
    /\ entry \in {"direct", "scenario"}
    /\ a2p_technology \in Technologies \cup {UnsupportedTechnology}
    /\ time_interval_hours \in (IF entry = "scenario" THEN {<<1, 2>>} ELSE TimeIntervals)
    /\ columns \in ColumnSets
    /\ original_interval \in (IF "DATETIME" \in columns THEN OriginalIntervals ELSE {NotComputed})
    /\ price_in \in InputSeries(columns, time_interval_hours, original_interval)
    /\ pc = (IF entry = "scenario" THEN "scenario_load" ELSE "construct")
    /\ model_created = FALSE
    /\ data = NoData
    /\ instance_created = FALSE
    /\ solver_calls = 0
    /\ results = NoResults
    /\ solution = NoSolution
    /\ values_read = FALSE
    /\ objective_value = NotComputed
    /\ optimization_results = None
    /\ returned = Pending
    /\ steps_done = <<>>
    /\ scenario_returned = Pending
    /\ raised = "none"
    /\ capacity_bounds = <<FromInt(CapacityUpperBound)>>
    /\ optima = <<>>
    /\ years = <<>>
    /\ report = None
    /\ storage_capacity = FromInt(default_storage_capacity)
    /\ call_log = <<>>

Raise(exc) ==
    /\ raised' = exc
    /\ pc' = "raised"

\* run_single_scenario, up to the construction of the optimizer
ScenarioLoad ==
    /\ pc = "scenario_load"
    /\ IF "DATETIME" \notin columns
       THEN Raise("KeyError")
       ELSE pc' = "construct" /\ UNCHANGED raised
    /\ UNCHANGED <<study_vars, report, entry, a2p_technology, time_interval_hours, columns, original_interval,
                   price_in, model_created, data, instance_created, solver_calls, results,
                   solution, values_read, objective_value, optimization_results, returned,
                   steps_done, scenario_returned>>

\* IntegratedAmmoniaBatteryOptimizer.__init__
Construct ==
    /\ pc = "construct"
    /\ IF a2p_technology \notin Technologies
       THEN Raise("ValueError") /\ UNCHANGED optimization_results
       ELSE pc' = "create_model" /\ optimization_results' = None /\ UNCHANGED raised
    /\ UNCHANGED <<study_vars, report, entry, a2p_technology, time_interval_hours, columns, original_interval,
                   price_in, model_created, data, instance_created, solver_calls, results,
                   solution, values_read, objective_value, returned, steps_done,
                   scenario_returned>>

\* optimize(): model = self.create_optimization_model()
CreateModel ==
    /\ pc = "create_model"
    /\ model_created' = TRUE
    /\ pc' = "prepare_data"
    /\ UNCHANGED <<study_vars, report, entry, a2p_technology, time_interval_hours, columns, original_interval,
                   price_in, data, instance_created, solver_calls, results, solution,
                   values_read, objective_value, optimization_results, returned, steps_done,
                   scenario_returned, raised>>

\* optimize(): data = self.prepare_data(model, timeseries_df)
PrepareData ==
    /\ pc = "prepare_data"
    /\ LET outcome == prepare_data_outcome(columns, time_interval_hours,
                                           original_interval, price_in)
       IN  IF outcome # "ok"
           THEN Raise(outcome) /\ UNCHANGED data
           ELSE /\ data' = prepare_data(a2p_technology, columns, time_interval_hours,
                                        original_interval, price_in)
                /\ pc' = "create_instance"
                /\ UNCHANGED raised
    /\ UNCHANGED <<study_vars, report, entry, a2p_technology, time_interval_hours, columns, original_interval,
                   price_in, model_created, instance_created, solver_calls, results,
                   solution, values_read, objective_value, optimization_results, returned,
                   steps_done, scenario_returned>>

\* optimize(): instance = model.create_instance(data); the cyclical rule
\* indexes the last element of DATETIME while the constraints are built
CreateInstance ==
    /\ pc = "create_instance"
    /\ IF data.T = 0
       THEN Raise("IndexError") /\ UNCHANGED instance_created
       ELSE instance_created' = TRUE /\ pc' = "solve" /\ UNCHANGED raised
    /\ UNCHANGED <<study_vars, report, entry, a2p_technology, time_interval_hours, columns, original_interval,
                   price_in, model_created, data, solver_calls, results, solution,
                   values_read, objective_value, optimization_results, returned, steps_done,
                   scenario_returned>>

\* the optimal objective value of a non-empty feasible region
best_objective(d, feasible) ==
    LET values == {operational_profit_rule(d.params, d.PRICE, s, d.T) : s \in feasible}
    IN  CHOOSE b \in values : \A o \in values : RLe(o, b)

\* the solutions the solver may report as optimal: those within the relative
\* gap mipgap of the best objective value
NearOptimal(d, feasible) ==
    LET obj(s) == operational_profit_rule(d.params, d.PRICE, s, d.T)
        values == {obj(s) : s \in feasible}
        best == CHOOSE b \in values : \A o \in values : RLe(o, b)
    IN  IF feasible = {} THEN {} ELSE
        {s \in feasible : RLe(RSub(best, obj(s)), RMul(mipgap, RAbs(obj(s))))}

\* optimize(): results = solver.solve(instance, ...)
Solve ==
    /\ pc = "solve"
    /\ solver_calls' = solver_calls + 1
    /\ \/ \E s \in NearOptimal(data, FeasibleTable[a2p_technology, time_interval_hours, data.T]) :
             /\ results' = <<"ok", "optimal">>
             /\ solution' = s
       \/ \E s \in FeasibleTable[a2p_technology, time_interval_hours, data.T] :
             /\ results' = <<"ok", "feasible">>
             /\ solution' = s
       \/ \E r \in (SolverStatuses \X TerminationConditions)
                        \ {<<"ok", "optimal">>, <<"ok", "feasible">>} :
             /\ results' = r
             /\ solution' = NoSolution
    /\ pc' = "check_status"
    /\ UNCHANGED <<study_vars, report, entry, a2p_technology, time_interval_hours, columns, original_interval,
                   price_in, model_created, data, instance_created, values_read,
                   objective_value, optimization_results, returned, steps_done,
                   scenario_returned, raised>>

\* mutation: a failed solve is tried once more
CheckStatus_retry ==
    /\ pc = "check_status"
    /\ IF Accepted(results)
       THEN pc' = "process_results" /\ UNCHANGED returned
       ELSE IF solver_calls < 2
       THEN pc' = "solve" /\ UNCHANGED returned
       ELSE returned' = None /\ pc' = "returned"
    /\ UNCHANGED <<study_vars, report, entry, a2p_technology, time_interval_hours, columns, original_interval,
                   price_in, model_created, data, instance_created, solver_calls, results,
                   solution, values_read, objective_value, optimization_results, steps_done,
                   scenario_returned, raised>>

\* mutation: after a failed solve the result of an earlier call is returned
CheckStatus_stale ==
    /\ pc = "check_status"
    /\ IF Accepted(results)
       THEN pc' = "process_results" /\ UNCHANGED returned
       ELSE returned' = optimization_results /\ pc' = "returned"
    /\ UNCHANGED <<study_vars, report, entry, a2p_technology, time_interval_hours, columns, original_interval,
                   price_in, model_created, data, instance_created, solver_calls, results,
                   solution, values_read, objective_value, optimization_results, steps_done,
                   scenario_returned, raised>>

\* optimize(): the status test and the early return
CheckStatus ==
    /\ pc = "check_status"
    /\ IF Accepted(results)
       THEN pc' = "process_results" /\ UNCHANGED returned
       ELSE returned' = None /\ pc' = "returned"
    /\ UNCHANGED <<study_vars, report, entry, a2p_technology, time_interval_hours, columns, original_interval,
                   price_in, model_created, data, instance_created, solver_calls, results,
                   solution, values_read, objective_value, optimization_results, steps_done,
                   scenario_returned, raised>>

\* mutation: the result is returned without being kept on the optimizer
ProcessResults_unassigned ==
    /\ pc = "process_results"
    /\ values_read' = TRUE
    /\ IF solution = NoSolution
       THEN /\ Raise("ValueError")
            /\ UNCHANGED <<objective_value, returned>>
       ELSE /\ objective_value' =
                   operational_profit_rule(data.params, data.PRICE, solution, data.T)
            /\ returned' =
                   process_results(data, solution, columns, original_interval,
                                   calculate_total_system_costs(a2p_technology,
                                                                storage_capacity))
            /\ pc' = "returned"
            /\ UNCHANGED raised
    /\ UNCHANGED <<study_vars, report, entry, a2p_technology, time_interval_hours, columns, original_interval,
                   price_in, model_created, data, instance_created, solver_calls, results,
                   solution, steps_done, scenario_returned, optimization_results>>

\* optimize(): self.optimization_results = self.process_results(instance, timeseries_df)
\* pyo.value of a variable that holds no value raises ValueError
ProcessResults ==
    /\ pc = "process_results"
    /\ values_read' = TRUE
    /\ IF solution = NoSolution
       THEN /\ Raise("ValueError")
            /\ UNCHANGED <<objective_value, optimization_results, returned>>
       ELSE /\ objective_value' =
                   operational_profit_rule(data.params, data.PRICE, solution, data.T)
            /\ optimization_results' =
                   process_results(data, solution, columns, original_interval,
                                   calculate_total_system_costs(a2p_technology,
                                                                storage_capacity))
            /\ returned' = optimization_results'
            /\ pc' = "returned"
            /\ UNCHANGED raised
    /\ UNCHANGED <<study_vars, report, entry, a2p_technology, time_interval_hours, columns, original_interval,
                   price_in, model_created, data, instance_created, solver_calls, results,
                   solution, steps_done, scenario_returned>>

(***************************************************************************)
(* The analysis that run_single_scenario applies to the ledger             *)
(* (analysis/operational_metrics.py, analysis/curtailment_analysis.py,     *)
(* economics/metrics.py).  A float is an exact rational, Inf, NaN, or a    *)
(* finite cost whose magnitude depends on the capital costs of the sized   *)
(* equipment: such a cost is a tuple of its name and of the quantities it  *)
(* was computed from.  Capital and fixed costs are finite and positive.    *)
(***************************************************************************)
Inf == <<1, 0>>  \* float('inf')
NaN == <<0, 0>>  \* the float that 0 * inf evaluates to

HoursPerYear == 366 * 24
LIFETIME_YEARS == 25

\* int(x // 1) for x >= 0
RFloor(x) == Num(x) \div Den(x)

\* mask.sum() and df.loc[mask, column].sum() over the first n rows
RECURSIVE count_rows(_, _)
count_rows(mask, n) ==
    IF n = 0 THEN 0 ELSE count_rows(mask, n - 1) + (IF mask[n] THEN 1 ELSE 0)

RECURSIVE sum_rows(_, _, _)
sum_rows(mask, column, n) ==
    IF n = 0 THEN Zero
    ELSE RAdd(sum_rows(mask, column, n - 1), IF mask[n] THEN column[n] ELSE Zero)

\* df[name], df[name] > 0, a & b, and the mask that keeps every row
column_of(df, name) == [i \in 1..Len(df) |-> df[i][name]]
positive(column) == [i \in DOMAIN column |-> RGt(column[i], Zero)]
\* mutation: a row counts when either condition holds
both_either(a, b) == [i \in DOMAIN a |-> a[i] \/ b[i]]
both(a, b) == [i \in DOMAIN a |-> a[i] /\ b[i]]
every_row(df) == [i \in 1..Len(df) |-> TRUE]

\* df[name].sum()
column_sum(df, name) == sum_rows(every_row(df), column_of(df, name), Len(df))

\* Time holds timestamps (hours after the first input row) whenever the
\* analysis runs: run_single_scenario requires the DATETIME column
get_timestep(operational_results) ==
    IF Len(operational_results) > 1
    THEN RSub(operational_results[2].Time[2], operational_results[1].Time[2])
    ELSE <<1, 2>>

time_fraction_of(operational_results) ==
    RDiv(RMul(FromInt(Len(operational_results)), get_timestep(operational_results)),
         FromInt(HoursPerYear))

\* x / time_fraction if time_fraction > 0 else 0
annualised(x, time_fraction) ==
    IF RGt(time_fraction, Zero) THEN RDiv(x, time_fraction) ELSE Zero

calculate_summary_operational_metrics(results_df, p2a_capacity_mw, a2p_capacity_mw) ==
    LET n == Len(results_df)
        timestep_hours == get_timestep(results_df)
        time_fraction == time_fraction_of(results_df)
        charging == positive(column_of(results_df, "Charging_Power_MW"))
        discharging == positive(column_of(results_df, "Discharging_Power_MW"))
        annual_charging_hours ==
            RDiv(RMul(FromInt(count_rows(charging, n)), timestep_hours), time_fraction)
        annual_discharging_hours ==
            RDiv(RMul(FromInt(count_rows(discharging, n)), timestep_hours), time_fraction)
        annual_energy_consumed ==
            RDiv(RMul(column_sum(results_df, "Charging_Power_MW"), timestep_hours),
                 time_fraction)
        annual_energy_produced ==
            RDiv(RMul(column_sum(results_df, "Discharging_Power_MW"), timestep_hours),
                 time_fraction)
        max_annual_consumption == RMul(p2a_capacity_mw, FromInt(HoursPerYear))
        max_annual_production == RMul(a2p_capacity_mw, FromInt(HoursPerYear))
    IN  IF n = 0
        THEN <<>>
        ELSE [annual_charging_hours |-> annual_charging_hours,
              annual_discharging_hours |-> annual_discharging_hours,
              charging_capex_utilization |->
                  IF RGt(max_annual_consumption, Zero)
                  THEN RDiv(annual_energy_consumed, max_annual_consumption) ELSE Zero,
              discharging_capex_utilization |->
                  IF RGt(max_annual_production, Zero)
                  THEN RDiv(annual_energy_produced, max_annual_production) ELSE Zero,
              num_electrolyser_replacements |->
                  FromInt(RFloor(RDiv(RMul(annual_charging_hours, FromInt(25)),
                                      FromInt(80000))))]

\* (numerator / denominator * 100) if denominator > 0 else 0
percentage(numerator, denominator) ==
    IF RGt(denominator, Zero)
    THEN RMul(RDiv(numerator, denominator), FromInt(100)) ELSE Zero

ratio(numerator, denominator) ==
    IF RGt(denominator, Zero) THEN RDiv(numerator, denominator) ELSE Zero

analyze_curtailment_interactions(df) ==
    LET n == Len(df)
        timestep_hours == <<1, 2>>
        Curtailment == column_of(df, "Curtailment")
        Charging_Power_MW == column_of(df, "Charging_Power_MW")
        Discharging_Power_MW == column_of(df, "Discharging_Power_MW")
        Is_Curtailment == positive(Curtailment)
        Is_Battery_Idle ==
            [i \in 1..n |-> Charging_Power_MW[i] = Zero /\ Discharging_Power_MW[i] = Zero]
        Charging_During_Curtailment == both(Is_Curtailment, positive(Charging_Power_MW))
        Discharging_During_Curtailment ==
            both(Is_Curtailment, positive(Discharging_Power_MW))
        Idle_During_Curtailment == both(Is_Curtailment, Is_Battery_Idle)
        curtailment_periods == FromInt(count_rows(Is_Curtailment, n))
        total_curtailment_energy ==
            RMul(sum_rows(every_row(df), Curtailment, n), timestep_hours)
        curtailment_during_charging ==
            RMul(sum_rows(Charging_During_Curtailment, Curtailment, n), timestep_hours)
        curtailment_during_discharging ==
            RMul(sum_rows(Discharging_During_Curtailment, Curtailment, n), timestep_hours)
        battery_charging_energy_during_curtailment ==
            RMul(sum_rows(Charging_During_Curtailment, Charging_Power_MW, n),
                 timestep_hours)
        additional_excess_energy ==
            RMul(sum_rows(Discharging_During_Curtailment, Discharging_Power_MW, n),
                 timestep_hours)
    IN  [total_hours |-> RMul(FromInt(n), timestep_hours),
         curtailment_hours |-> RMul(curtailment_periods, timestep_hours),
         charging_during_curtailment_hours |->
             RMul(FromInt(count_rows(Charging_During_Curtailment, n)), timestep_hours),
         discharging_during_curtailment_hours |->
             RMul(FromInt(count_rows(Discharging_During_Curtailment, n)), timestep_hours),
         idle_during_curtailment_hours |->
             RMul(FromInt(count_rows(Idle_During_Curtailment, n)), timestep_hours),
         pct_curtailment_periods_charging |->
             percentage(FromInt(count_rows(Charging_During_Curtailment, n)),
                        curtailment_periods),
         pct_curtailment_periods_discharging |->
             percentage(FromInt(count_rows(Discharging_During_Curtailment, n)),
                        curtailment_periods),
         pct_curtailment_periods_idle |->
             percentage(FromInt(count_rows(Idle_During_Curtailment, n)),
                        curtailment_periods),
         total_curtailment_energy_mwh |-> total_curtailment_energy,
         pct_curtailment_energy_during_charging |->
             percentage(curtailment_during_charging, total_curtailment_energy),
         pct_curtailment_energy_during_discharging |->
             percentage(curtailment_during_discharging, total_curtailment_energy),
         curtailment_capture_efficiency_pct |->
             percentage(battery_charging_energy_during_curtailment,
                        curtailment_during_charging),
         curtailment_capture_ratio |->
             ratio(battery_charging_energy_during_curtailment, total_curtailment_energy),
         excess_energy_contribution_ratio |->
             ratio(additional_excess_energy, total_curtailment_energy)]

\* the present value of the stack replacements: 0.0 when there is none,
\* otherwise a positive cost, the sum over the priced replacements
calculate_electrolyser_replacement_costs(operational_results, technology, time_fraction) ==
    LET replacement_hours == IF technology = "h2_combustion" THEN 60000 ELSE 80000
        charging == positive(column_of(operational_results, "Charging_Power_MW"))
        period_operating_hours ==
            RMul(FromInt(count_rows(charging, Len(operational_results))),
                 get_timestep(operational_results))
        annual_operating_hours == annualised(period_operating_hours, time_fraction)
        total_operating_hours == RMul(annual_operating_hours, FromInt(LIFETIME_YEARS))
        num_replacements == RFloor(RDiv(total_operating_hours, FromInt(replacement_hours)))
        \* the replacements of the loop whose year passes replacement_year <= lifetime
        priced_replacements ==
            {replacement_num \in 1..num_replacements :
                RLe(RDiv(FromInt(replacement_num * replacement_hours),
                         annual_operating_hours),
                    FromInt(LIFETIME_YEARS))}
    IN  IF technology \notin {"h2_combustion", "blend_combustion", "direct_combustion"}
        THEN Zero
        ELSE IF annual_operating_hours = Zero \/ priced_replacements = {}
        THEN Zero
        ELSE <<"present_value", replacement_hours, Cardinality(priced_replacements)>>

\* annual_nh3_consumed * lcoa_results['lcoa_per_tonne']
float_product(x, y) ==
    IF y = NaN THEN NaN
    ELSE IF y = Inf THEN (IF x = Zero THEN NaN ELSE Inf)
    ELSE IF x = Zero THEN Zero
    ELSE <<"product", x, y>>

calculate_levelized_cost(annual_output, annual_variable_cost, pv_replacement_costs) ==
    IF annual_output = Zero THEN Inf
    ELSE IF annual_variable_cost = NaN THEN NaN
    ELSE IF annual_variable_cost = Inf THEN Inf
    ELSE <<"levelized_cost", annual_output, annual_variable_cost, pv_replacement_costs>>

calculate_lcoa(results_dict, technology) ==
    LET operational_results == results_dict.operational_results
        time_fraction == time_fraction_of(operational_results)
        annual_production ==
            annualised(column_sum(operational_results, "NH3_Produced_Tonnes"),
                       time_fraction)
        annual_electricity_cost ==
            annualised(column_sum(operational_results, "Charging_Cost"), time_fraction)
        pv_replacements ==
            calculate_electrolyser_replacement_costs(operational_results, technology,
                                                     time_fraction)
    IN  [lcoa_per_tonne |->
             calculate_levelized_cost(annual_production, annual_electricity_cost,
                                      pv_replacements),
         annual_production_tonnes |-> annual_production,
         electrolyser_replacement_pv |-> pv_replacements]

calculate_lcoe(results_dict, lcoa_results) ==
    LET operational_results == results_dict.operational_results
        timestep == get_timestep(operational_results)
        time_fraction == time_fraction_of(operational_results)
        annual_generation ==
            annualised(RMul(column_sum(operational_results, "Discharging_Power_MW"),
                            timestep),
                       time_fraction)
        annual_nh3_consumed ==
            annualised(column_sum(operational_results, "NH3_Consumed_Tonnes"),
                       time_fraction)
        annual_fuel_cost == float_product(annual_nh3_consumed, lcoa_results.lcoa_per_tonne)
    IN  [lcoe_per_mwh |-> calculate_levelized_cost(annual_generation, annual_fuel_cost, Zero),
         annual_generation_mwh |-> annual_generation,
         annual_fuel_cost |-> annual_fuel_cost]

calculate_lcos(results_dict, technology) ==
    LET operational_results == results_dict.operational_results
        timestep == get_timestep(operational_results)
        time_fraction ==
            IF "time_fraction" \in DOMAIN results_dict.economics
            THEN results_dict.economics.time_fraction
            ELSE time_fraction_of(operational_results)
        annual_energy_discharged ==
            annualised(RMul(column_sum(operational_results, "Discharging_Power_MW"),
                            timestep),
                       time_fraction)
        pv_replacements ==
            calculate_electrolyser_replacement_costs(operational_results, technology,
                                                     time_fraction)
        storage_energy_capacity ==
            RDiv(RMul(RMul(results_dict.optimal_design.optimal_capacity_tonnes,
                           FromInt(1000)), lhv_NH3),
                 FromInt(3600))
    IN  [lcos_per_mwh |->
             calculate_levelized_cost(annual_energy_discharged, Zero, pv_replacements),
         annual_energy_discharged_mwh |-> annual_energy_discharged,
         annual_cycles |-> ratio(annual_energy_discharged, storage_energy_capacity)]

\* what run_single_scenario computes from the accepted result and passes to
\* generate_summary_report
scenario_report(results_dict, technology) ==
    LET lcoa_results == calculate_lcoa(results_dict, technology)
    IN  [operational_metrics |->
             calculate_summary_operational_metrics(results_dict.operational_results,
                                                   FromInt(p2a_capacity), FromInt(a2p_capacity)),
         curtailment_results |->
             analyze_curtailment_interactions(results_dict.operational_results),
         lcoa_results |-> lcoa_results,
         lcoe_results |-> calculate_lcoe(results_dict, lcoa_results),
         lcos_results |-> calculate_lcos(results_dict, technology)]

\* run_single_scenario: the steps after optimize() has returned
DownstreamSteps ==
    <<"calculate_summary_operational_metrics", "analyze_curtailment_interactions",
      "calculate_lcoa", "calculate_lcoe", "calculate_lcos", "to_csv", "plot_results",
      "generate_summary_report">>

\* mutation: the result of optimize() is not tested before the analysis
ScenarioFinish_unchecked ==
    /\ pc = "returned"
    /\ entry = "scenario"
    /\ IF returned = None
       THEN Raise("TypeError") /\ UNCHANGED <<scenario_returned, steps_done, report>>
       ELSE /\ scenario_returned' = returned
            /\ steps_done' = DownstreamSteps
            /\ report' = scenario_report(returned, a2p_technology)
            /\ pc' = "scenario_done"
            /\ UNCHANGED raised
    /\ UNCHANGED <<study_vars, entry, a2p_technology, time_interval_hours, columns, original_interval,
                   price_in, model_created, data, instance_created, solver_calls, results,
                   solution, values_read, objective_value, optimization_results, returned>>

ScenarioFinish ==
    /\ pc = "returned"
    /\ entry = "scenario"
    /\ IF returned = None
       THEN scenario_returned' = None /\ UNCHANGED <<steps_done, report>>
       ELSE /\ scenario_returned' = returned
            /\ steps_done' = DownstreamSteps
            /\ report' = scenario_report(returned, a2p_technology)
    /\ pc' = "scenario_done"
    /\ UNCHANGED <<study_vars, entry, a2p_technology, time_interval_hours, columns, original_interval,
                   price_in, model_created, data, instance_created, solver_calls, results,
                   solution, values_read, objective_value, optimization_results, returned,
                   raised>>

Next ==
    \/ ScenarioLoad
    \/ Construct
    \/ CreateModel
    \/ PrepareData
    \/ CreateInstance
    \/ Solve
    \/ CheckStatus
    \/ ProcessResults
    \/ ScenarioFinish

Spec == Init /\ [][Next]_vars


(***************************************************************************)
(* The formulation on its own: create_optimization_model instantiated with *)
(* parameters and series handed to it directly, and with the upper bound   *)
(* of OPTIMAL_NH3_CAPACITY as an input.  Each behaviour solves the same    *)
(* instance once per bound of capacity_bounds.                             *)
(***************************************************************************)
\* the parameters of the two-timestep scenario of the specification
ScenarioParams ==
    [MAXIMUM_CHARGING_POWER    |-> FromInt(10),
     MAXIMUM_DISCHARGING_POWER |-> FromInt(10),
     CHARGING_EFFICIENCY       |-> One,
     DISCHARGING_EFFICIENCY    |-> One,
     TIMESTEP                  |-> One,
     MIN_CHARGING_THRESHOLD    |-> FromInt(min_charging_threshold),
     MIN_DISCHARGING_THRESHOLD |-> FromInt(min_discharging_threshold),
     LHV_NH3                   |-> lhv_NH3,
     NH3_CONVERSION_FACTOR     |-> RDiv(FromInt(3600), RMul(lhv_NH3, FromInt(1000)))]

ModelParams == {ScenarioParams, static_params("direct_combustion", <<1, 2>>)}
ModelPriceValues == {FromInt(0), FromInt(100)}
ModelPriceSeries == UNION {[0..(n - 1) -> ModelPriceValues] : n \in 1..MaxRows}
CapacityBoundValues == {FromInt(0), FromInt(5), FromInt(CapacityUpperBound)}
Infeasible == <<>>

ModelFeasibleTable ==
    Tabulated([m \in ModelParams, T \in 1..MaxRows, B \in CapacityBoundValues |->
                  FeasibleSolutionsBounded(m, T, B)])

\* the outcome of solving each instance: its optimal objective value and the
\* solutions the solver may report as optimal, each with the value of
\* instance.objective, or Infeasible
ModelSolveTable ==
    Tabulated(
    [m \in ModelParams, price \in ModelPriceSeries, B \in CapacityBoundValues |->
        LET d == [T |-> Cardinality(DOMAIN price), PRICE |-> price, params |-> m]
            feasible == ModelFeasibleTable[m, d.T, B]
        IN  IF feasible = {}
            THEN Infeasible
            ELSE [best |-> best_objective(d, feasible),
                  reported |-> {<<s, operational_profit_rule(m, price, s, d.T)>> :
                                    s \in NearOptimal(d, feasible)}]])

ModelInit ==
    /\ entry = "create_optimization_model"
    /\ \E m \in ModelParams, price \in ModelPriceSeries :
          data = [T |-> Cardinality(DOMAIN price), PRICE |-> price, params |-> m]
    /\ \E B1, B2 \in CapacityBoundValues :
          RLe(B1, B2) /\ capacity_bounds = <<B1, B2>>
    /\ optima = <<>>
    /\ pc = "solve"
    /\ a2p_technology = "direct_combustion"
    /\ time_interval_hours = data.params.TIMESTEP
    /\ columns = RequiredColumns
    /\ original_interval = data.params.TIMESTEP
    /\ price_in = [i \in 1..data.T |-> data.PRICE[i - 1]]
    /\ model_created = TRUE
    /\ instance_created = TRUE
    /\ solver_calls = 0
    /\ results = NoResults
    /\ solution = NoSolution
    /\ values_read = FALSE
    /\ objective_value = NotComputed
    /\ optimization_results = None
    /\ returned = Pending
    /\ steps_done = <<>>
    /\ scenario_returned = Pending
    /\ raised = "none"
    /\ years = <<>>
    /\ report = None
    /\ storage_capacity = FromInt(default_storage_capacity)
    /\ call_log = <<>>

\* one solve of the instance under the next bound of capacity_bounds
ModelSolve ==
    /\ entry = "create_optimization_model"
    /\ pc = "solve"
    /\ LET B == capacity_bounds[Len(optima) + 1]
           outcome == ModelSolveTable[data.params, data.PRICE, B]
       IN  IF outcome = Infeasible
           THEN /\ results' = <<"ok", "infeasible">>
                /\ solution' = NoSolution
                /\ objective_value' = NotComputed
                /\ optima' = Append(optima, Infeasible)
           ELSE /\ results' = <<"ok", "optimal">>
                /\ optima' = Append(optima, outcome.best)
                /\ \E r \in outcome.reported :
                      /\ solution' = r[1]
                      /\ objective_value' = r[2]
    /\ solver_calls' = solver_calls + 1
    /\ pc' = (IF Len(optima') = Len(capacity_bounds) THEN "solved" ELSE "solve")
    /\ UNCHANGED <<entry, a2p_technology, time_interval_hours, columns, original_interval,
                   price_in, model_created, data, instance_created, values_read,
                   optimization_results, returned, steps_done, scenario_returned, raised,
                   capacity_bounds, years, report, storage_capacity, call_log>>

ModelNext == ModelSolve

ModelSpec == ModelInit /\ [][ModelNext]_vars


(***************************************************************************)
(* The components that are handed a configuration value, each called on    *)
(* its own with the value: the constructors that receive a2p_technology,   *)
(* the cost functions of economics/metrics.py that receive it next to a    *)
(* ledger, and the cost-index adjustment of process_units/equipment.py.    *)
(* A call ends with a value or with an exception.                          *)
(***************************************************************************)
Raises(exc) == [kind |-> "raise", exception |-> exc]
Returns(v) == [kind |-> "value", value |-> v]

\* CEPCI_DICT, the index of each year in tenths
CEPCI_tenths ==
    <<3943, 3956, 4020, 4442, 4682, 4996, 5254, 5754, 5219, 5508, 5857, 5846,
      5673, 5761, 5568, 5417, 5675, 6031, 6075, 5962, 7088, 8160, 7979, 7991>>
CEPCI_DICT == [y \in 2001..2024 |-> Rat(CEPCI_tenths[y - 2000], 10)]

adjust_cost_with_cepci(base_cost, base_year, target_year) ==
    IF base_year \notin DOMAIN CEPCI_DICT \/ target_year \notin DOMAIN CEPCI_DICT
    THEN Raises("ValueError")
    ELSE LET cepci_ratio == RDiv(CEPCI_DICT[target_year], CEPCI_DICT[base_year])
         IN  Returns(RMul(base_cost, cepci_ratio))

\* H2ElectrolyserUnit.set_size: the unit cost (thousand USD) brought to 2024
unit_capex == 500
H2ElectrolyserUnit_set_size(base_year) ==
    LET inflated_unit_capex == adjust_cost_with_cepci(FromInt(unit_capex), base_year, 2024)
    IN  IF inflated_unit_capex.kind = "raise"
        THEN inflated_unit_capex
        ELSE Returns([inflated_unit_capex |-> inflated_unit_capex.value])

AmmoniaToPower_init(conversion_technology) ==
    IF conversion_technology \in {"direct_combustion", "blend_combustion", "h2_combustion"}
    THEN Returns([conversion_technology |-> conversion_technology,
                  efficiency |-> power_generation_efficiency(conversion_technology)])
    ELSE Raises("ValueError")

AmmoniaBattery_init(technology) ==
    LET a2p == AmmoniaToPower_init(technology)
    IN  IF a2p.kind = "raise" THEN a2p ELSE Returns([a2p |-> a2p.value])

IntegratedAmmoniaBatteryOptimizer_init(technology) ==
    LET battery == AmmoniaBattery_init(technology)
    IN  IF battery.kind = "raise"
        THEN battery
        ELSE Returns([battery |-> battery.value,
                      charging_efficiency |-> calc_p2a_efficiency,
                      discharging_efficiency |-> battery.value.a2p.efficiency])

TechnologyComponents ==
    {"AmmoniaToPower", "AmmoniaBattery", "IntegratedAmmoniaBatteryOptimizer",
     "_calculate_electrolyser_replacement_costs", "calculate_lcoa", "calculate_lcos"}
\* the analysis of run_single_scenario, entered with the results of optimize()
ScenarioComponents == {"run_single_scenario"}
LedgerComponents ==
    {"_calculate_electrolyser_replacement_costs", "calculate_lcoa", "calculate_lcos"}
YearComponents == {"adjust_cost_with_cepci", "H2ElectrolyserUnit.set_size"}
Components == TechnologyComponents \cup YearComponents \cup ScenarioComponents

\* the years a cost is indexed from and to: the table, and one year each side
YearInputs == 2000..2025
BaseCost == FromInt(1000)

\* the results of optimize() that the cost functions are called with: those
\* of a two-row direct-combustion run
ComponentPrice == <<FromInt(-1), FromInt(1)>>
ComponentResults ==
    LET d == prepare_data("direct_combustion", RequiredColumns, <<1, 2>>, <<1, 2>>,
                          ComponentPrice)
    IN  {process_results(d, s, RequiredColumns, <<1, 2>>,
                         calculate_total_system_costs("direct_combustion",
                                                      FromInt(default_storage_capacity))) :
             s \in FeasibleTable["direct_combustion", <<1, 2>>, d.T]}

\* the results of optimize() that the scenario analysis is entered with:
\* those of a run of the technology over a three-row series
ScenarioPrice == <<FromInt(-1), FromInt(-1), FromInt(1)>>
ScenarioResults ==
    Tabulated([tech \in Technologies |->
        LET d == prepare_data(tech, RequiredColumns, <<1, 2>>, <<1, 2>>, ScenarioPrice)
        IN  {process_results(d, s, RequiredColumns, <<1, 2>>,
                             calculate_total_system_costs(
                                 tech, FromInt(default_storage_capacity))) :
                 s \in FeasibleSolutions(static_params(tech, <<1, 2>>), d.T)}])

ComponentInit ==
    /\ entry \in Components
    /\ a2p_technology \in (IF entry \in TechnologyComponents
                           THEN Technologies \cup {UnsupportedTechnology}
                           ELSE IF entry \in ScenarioComponents THEN Technologies
                           ELSE {"direct_combustion"})
    /\ years \in (CASE entry = "adjust_cost_with_cepci" -> YearInputs \X YearInputs
                    [] entry = "H2ElectrolyserUnit.set_size" ->
                           {<<base_year, 2024>> : base_year \in YearInputs}
                    [] OTHER -> {<<>>})
    /\ optimization_results \in (IF entry \in LedgerComponents THEN ComponentResults
                                 ELSE IF entry \in ScenarioComponents
                                 THEN ScenarioResults[a2p_technology]
                                 ELSE {None})
    /\ pc = "call"
    /\ returned = Pending
    /\ raised = "none"
    /\ time_interval_hours = <<1, 2>>
    /\ columns = RequiredColumns
    /\ original_interval = <<1, 2>>
    /\ price_in = (IF entry \in ScenarioComponents THEN ScenarioPrice ELSE ComponentPrice)
    /\ model_created = FALSE
    /\ data = NoData
    /\ instance_created = FALSE
    /\ solver_calls = 0
    /\ results = NoResults
    /\ solution = NoSolution
    /\ values_read = FALSE
    /\ objective_value = NotComputed
    /\ steps_done = <<>>
    /\ scenario_returned = Pending
    /\ capacity_bounds = <<>>
    /\ optima = <<>>
    /\ report = None
    /\ storage_capacity = FromInt(default_storage_capacity)
    /\ call_log = <<>>

\* the call in progress ends with outcome
ComponentReturn(outcome) ==
    /\ IF outcome.kind = "raise"
       THEN Raise(outcome.exception) /\ UNCHANGED returned
       ELSE returned' = outcome /\ pc' = "returned" /\ UNCHANGED raised
    /\ UNCHANGED <<study_vars, report, entry, a2p_technology, time_interval_hours, columns,
                   original_interval, price_in, model_created, data, instance_created,
                   solver_calls, results, solution, values_read, objective_value,
                   optimization_results, steps_done, scenario_returned>>

CallAmmoniaToPower ==
    /\ entry = "AmmoniaToPower"
    /\ pc = "call"
    /\ ComponentReturn(AmmoniaToPower_init(a2p_technology))

CallAmmoniaBattery ==
    /\ entry = "AmmoniaBattery"
    /\ pc = "call"
    /\ ComponentReturn(AmmoniaBattery_init(a2p_technology))

CallOptimizer ==
    /\ entry = "IntegratedAmmoniaBatteryOptimizer"
    /\ pc = "call"
    /\ ComponentReturn(IntegratedAmmoniaBatteryOptimizer_init(a2p_technology))

CallAdjustCost ==
    /\ entry = "adjust_cost_with_cepci"
    /\ pc = "call"
    /\ ComponentReturn(adjust_cost_with_cepci(BaseCost, years[1], years[2]))

CallSetSize ==
    /\ entry = "H2ElectrolyserUnit.set_size"
    /\ pc = "call"
    /\ ComponentReturn(H2ElectrolyserUnit_set_size(years[1]))

CallReplacementCosts ==
    /\ entry = "_calculate_electrolyser_replacement_costs"
    /\ pc = "call"
    /\ ComponentReturn(
           Returns(calculate_electrolyser_replacement_costs(
                       optimization_results.operational_results, a2p_technology,
                       time_fraction_of(optimization_results.operational_results))))

CallLcoa ==
    /\ entry = "calculate_lcoa"
    /\ pc = "call"
    /\ ComponentReturn(Returns(calculate_lcoa(optimization_results, a2p_technology)))

CallLcos ==
    /\ entry = "calculate_lcos"
    /\ pc = "call"
    /\ ComponentReturn(Returns(calculate_lcos(optimization_results, a2p_technology)))

\* run_single_scenario: the analysis of the results of optimize()
CallScenarioAnalysis ==
    /\ entry = "run_single_scenario"
    /\ pc = "call"
    /\ scenario_returned' = optimization_results
    /\ steps_done' = DownstreamSteps
    /\ report' = scenario_report(optimization_results, a2p_technology)
    /\ pc' = "scenario_done"
    /\ UNCHANGED <<study_vars, entry, a2p_technology, time_interval_hours, columns,
                   original_interval, price_in, model_created, data, instance_created,
                   solver_calls, results, solution, values_read, objective_value,
                   optimization_results, returned, raised>>

ComponentNext ==
    \/ CallScenarioAnalysis
    \/ CallAmmoniaToPower
    \/ CallAmmoniaBattery
    \/ CallOptimizer
    \/ CallAdjustCost
    \/ CallSetSize
    \/ CallReplacementCosts
    \/ CallLcoa
    \/ CallLcos

ComponentSpec == ComponentInit /\ [][ComponentNext]_vars


(***************************************************************************)
(* One optimizer and a client that calls optimize() on it several times,   *)
(* each time with a series of its choice.  model, data, instance, solver   *)
(* and results are local variables of optimize(): every call starts with   *)
(* new ones.  self.optimization_results outlives the call.                 *)
(***************************************************************************)
MaxCalls == 2
StorageCapacities == {FromInt(default_storage_capacity), FromInt(50)}

\* the series the client passes to the hourly optimizer: a half-hourly one
\* with a price spread, resampled to one hour, and one that lacks a
\* required column
SessionInputs ==
    {[columns |-> RequiredColumns, price_in |-> <<FromInt(-1), FromInt(2)>>],
     [columns |-> RequiredColumns \ {"PRICE"}, price_in |-> <<FromInt(-1), FromInt(2)>>]}

SessionInit ==
    /\ entry = "session"
    /\ a2p_technology = "direct_combustion"
    /\ time_interval_hours = <<1, 1>>
    /\ storage_capacity \in StorageCapacities
    /\ \E input \in SessionInputs :
          /\ columns = input.columns
          /\ price_in = input.price_in
    /\ original_interval = <<1, 2>>
    /\ pc = "construct"
    /\ call_log = <<>>
    /\ model_created = FALSE
    /\ data = NoData
    /\ instance_created = FALSE
    /\ solver_calls = 0
    /\ results = NoResults
    /\ solution = NoSolution
    /\ values_read = FALSE
    /\ objective_value = NotComputed
    /\ optimization_results = None
    /\ returned = Pending
    /\ steps_done = <<>>
    /\ scenario_returned = Pending
    /\ raised = "none"
    /\ capacity_bounds = <<FromInt(CapacityUpperBound)>>
    /\ optima = <<>>
    /\ years = <<>>
    /\ report = None

\* how the call in progress has ended
CallOutcome ==
    IF pc = "raised" THEN [kind |-> "raised", exception |-> raised] ELSE returned

\* the client calls optimize() again once the previous call has ended
OptimizeAgain ==
    /\ entry = "session"
    /\ pc \in {"returned", "raised"}
    /\ Len(call_log) + 1 < MaxCalls
    /\ call_log' = Append(call_log, CallOutcome)
    /\ \E input \in SessionInputs :
          /\ columns' = input.columns
          /\ price_in' = input.price_in
    /\ model_created' = FALSE
    /\ data' = NoData
    /\ instance_created' = FALSE
    /\ solver_calls' = 0
    /\ results' = NoResults
    /\ solution' = NoSolution
    /\ values_read' = FALSE
    /\ objective_value' = NotComputed
    /\ returned' = Pending
    /\ raised' = "none"
    /\ pc' = "create_model"
    /\ UNCHANGED <<entry, a2p_technology, time_interval_hours, original_interval,
                   optimization_results, steps_done, scenario_returned, capacity_bounds,
                   optima, years, report, storage_capacity>>

SessionNext ==
    \/ Construct
    \/ CreateModel
    \/ PrepareData
    \/ CreateInstance
    \/ Solve
    \/ CheckStatus
    \/ ProcessResults
    \/ OptimizeAgain

SessionSpec == SessionInit /\ [][SessionNext]_vars


(***************************************************************************)
(* Properties.                                                             *)
(***************************************************************************)
\* the solver outcome that optimize() is specified to accept
AcceptedOutcome == results \in {<<"ok", "optimal">>, <<"ok", "feasible">>}
\* an accepted solution is loaded in the instance
AcceptedSolution == AcceptedOutcome /\ solution # NoSolution
Horizon == 0..(data.T - 1)
Positive(x) == RGt(x, Zero)

\* the mass flows of a timestep as the specification states them
spec_charge_in(t) ==
    RMul(RMul(RMul(solution.CP[t], data.params.CHARGING_EFFICIENCY), data.params.TIMESTEP),
         data.params.NH3_CONVERSION_FACTOR)
spec_discharge_out(t) ==
    RMul(RDiv(RMul(solution.DP[t], data.params.TIMESTEP), data.params.DISCHARGING_EFFICIENCY),
         data.params.NH3_CONVERSION_FACTOR)

\* C1: in every accepted solution, at every timestep the inventory is at
\* least 0 and at most the optimal capacity, which is at most 100000
C1_InventoryWithinCapacity ==
    AcceptedSolution =>
        \A t \in Horizon :
            /\ RLe(Zero, solution.LVL[t])
            /\ RLe(solution.LVL[t], solution.CAP)
            /\ RLe(solution.CAP, FromInt(100000))

\* an accepted solution whose inventory fills a non-empty storage at some
\* timestep and is below it at another
C1_Witness ==
    /\ AcceptedSolution
    /\ Positive(solution.CAP)
    /\ \E t \in Horizon : solution.LVL[t] = solution.CAP
    /\ \E t \in Horizon : RLt(solution.LVL[t], solution.CAP)

\* C2: in every accepted solution the inventory follows the mass balance in
\* index order: the first inventory is the initial level plus charge_in minus
\* discharge_out, and each later inventory differs from the previous one by
\* charge_in minus discharge_out
C2_MassBalance ==
    AcceptedSolution =>
        \A t \in Horizon :
            IF t = 0
            THEN solution.LVL[0] =
                    RSub(RAdd(solution.INIT, spec_charge_in(0)), spec_discharge_out(0))
            ELSE RSub(solution.LVL[t], solution.LVL[t - 1]) =
                    RSub(spec_charge_in(t), spec_discharge_out(t))

\* an accepted solution that charges at one timestep and discharges at a later one
C2_Witness ==
    /\ AcceptedSolution
    /\ \E t, u \in Horizon :
          /\ t < u
          /\ Positive(solution.CP[t])
          /\ Positive(solution.DP[u])

\* C3: in every accepted solution the inventory at the last timestep equals
\* the optimized initial level
C3_CyclicClosure ==
    AcceptedSolution => solution.LVL[data.T - 1] = solution.INIT

\* an accepted solution whose inventory leaves the initial level and returns to it
C3_Witness ==
    /\ AcceptedSolution
    /\ data.T >= 2
    /\ solution.LVL[0] # solution.INIT
    /\ solution.LVL[data.T - 1] = solution.INIT

\* C4: in every accepted solution, at every timestep at most one of the two
\* activity flags is 1 and the two powers are never both positive
C4_MutualExclusivity ==
    AcceptedSolution =>
        \A t \in Horizon :
            /\ solution.ION[t] + solution.DON[t] <= 1
            /\ ~(Positive(solution.CP[t]) /\ Positive(solution.DP[t]))

\* an accepted solution with a timestep that only charges and a timestep
\* that only discharges
C4_Witness ==
    /\ AcceptedSolution
    /\ \E t \in Horizon :
          /\ solution.ION[t] = 1 /\ solution.DON[t] = 0
          /\ Positive(solution.CP[t]) /\ solution.DP[t] = Zero
    /\ \E t \in Horizon :
          /\ solution.ION[t] = 0 /\ solution.DON[t] = 1
          /\ solution.CP[t] = Zero /\ Positive(solution.DP[t])

\* C5: in every accepted solution, at every timestep a power whose flag is 0
\* is 0, and a power whose flag is 1 lies between its minimum fraction of the
\* maximum and the maximum
C5_ActivationBounds ==
    AcceptedSolution =>
        \A t \in Horizon :
            /\ solution.ION[t] = 0 => solution.CP[t] = Zero
            /\ solution.ION[t] = 1 =>
                  /\ RLe(RMul(FromInt(min_charging_threshold), FromInt(p2a_capacity)),
                         solution.CP[t])
                  /\ RLe(solution.CP[t], FromInt(p2a_capacity))
            /\ solution.DON[t] = 0 => solution.DP[t] = Zero
            /\ solution.DON[t] = 1 =>
                  /\ RLe(RMul(FromInt(min_discharging_threshold), FromInt(a2p_capacity)),
                         solution.DP[t])
                  /\ RLe(solution.DP[t], FromInt(a2p_capacity))

\* an accepted solution with a charging flag on at full power, a charging
\* flag off, and a discharging flag on with positive power
C5_Witness ==
    /\ AcceptedSolution
    /\ \E t \in Horizon : solution.ION[t] = 1 /\ solution.CP[t] = FromInt(p2a_capacity)
    /\ \E t \in Horizon : solution.ION[t] = 0 /\ solution.DON[t] = 1 /\ Positive(solution.DP[t])


\* the ledger column Net_Revenue, in row order
NetRevenueColumn ==
    [i \in 1..Len(optimization_results.operational_results) |->
        optimization_results.operational_results[i].Net_Revenue]

\* C6: for every accepted solution the objective value equals the sum of
\* Net_Revenue over the ledger rows, each Net_Revenue being the discharging
\* revenue minus the charging cost of its row, and that sum is the reported
\* period_operational_profit
C6_ObjectiveEqualsLedgerProfit ==
    optimization_results # None =>
        /\ objective_value = RSum(NetRevenueColumn)
        /\ optimization_results.economics.period_operational_profit = RSum(NetRevenueColumn)
        /\ \A i \in 1..Len(optimization_results.operational_results) :
              LET row == optimization_results.operational_results[i]
                  dt == data.params.TIMESTEP
              IN  /\ row.Net_Revenue = RSub(row.Discharging_Revenue, row.Charging_Cost)
                  /\ row.Discharging_Revenue =
                        RMul(RMul(row.Discharging_Power_MW, dt), row.Price)
                  /\ row.Charging_Cost = RMul(RMul(row.Charging_Power_MW, dt), row.Price)

\* a ledger with a row that costs money and a row that earns money, whose
\* objective value is not zero
C6_Witness ==
    /\ optimization_results # None
    /\ objective_value # Zero
    /\ \E i \in 1..Len(optimization_results.operational_results) :
          Positive(optimization_results.operational_results[i].Charging_Cost)
    /\ \E i \in 1..Len(optimization_results.operational_results) :
          Positive(optimization_results.operational_results[i].Discharging_Revenue)

\* C7: optimize() returns a result dictionary exactly when the solver status
\* is ok and the termination condition is optimal or feasible; otherwise it
\* returns None, and it reads no variable value of the instance
C7_ReturnsResultsIffAccepted ==
    /\ (returned # Pending) =>
          /\ (returned # None) <=> AcceptedOutcome
          /\ AcceptedOutcome => returned = optimization_results /\ values_read
    /\ (results # NoResults /\ ~AcceptedOutcome) => ~values_read
    /\ (results # NoResults /\ ~AcceptedOutcome /\ pc # "check_status") =>
          returned = None /\ raised = "none"

\* optimize() has returned None after a solve with status ok that was
\* neither optimal nor feasible
C7_Witness ==
    /\ returned = None
    /\ results # NoResults
    /\ results[1] = "ok"
    /\ ~values_read

\* C8: after a failed solve run_single_scenario returns None without
\* raising, no downstream step runs and no ledger exists; downstream steps
\* run only after a successful solve
C8_FailurePropagatesAsNone ==
    /\ (entry = "scenario" /\ results # NoResults /\ ~AcceptedOutcome) =>
          /\ raised = "none"
          /\ steps_done = <<>>
          /\ optimization_results = None
          /\ pc = "scenario_done" => scenario_returned = None
          /\ scenario_returned \in {Pending, None}
    /\ steps_done # <<>> =>
          /\ AcceptedOutcome
          /\ returned # None /\ returned # Pending
          /\ scenario_returned = returned

\* run_single_scenario has returned None after a failed solve
C8_Witness ==
    /\ entry = "scenario"
    /\ pc = "scenario_done"
    /\ results # NoResults /\ ~AcceptedOutcome
    /\ scenario_returned = None
    /\ steps_done = <<>>


\* C9: whenever one of the required columns DATETIME, PRICE, DEMAND, WIND,
\* CURTAILMENT, CARBON_BASED_FUELS is absent from the input series, data
\* binding fails with an error before any instance is created or the solver
\* is invoked
C9_MissingColumnIsFatal ==
    columns # RequiredColumns =>
        /\ ~instance_created
        /\ solver_calls = 0
        /\ data = NoData
        /\ pc \notin {"create_instance", "solve", "check_status", "process_results",
                      "returned", "scenario_done"}

\* C10 as stated: in every accepted solution the inventory at the first
\* timestep equals the optimized initial level
C10_FirstInventoryIsInitialLevel ==
    AcceptedSolution => solution.LVL[0] = solution.INIT

\* C10 as amended: in every accepted solution the inventory at the first
\* timestep is the optimized initial level plus the charge_in and minus the
\* discharge_out of that timestep, so it equals the optimized initial level
\* exactly when the first timestep is idle
C10_FirstInventoryFromInitialLevel ==
    AcceptedSolution =>
        /\ solution.LVL[0] = RAdd(solution.INIT, RSub(spec_charge_in(0), spec_discharge_out(0)))
        /\ (solution.LVL[0] = solution.INIT) <=>
              (solution.CP[0] = Zero /\ solution.DP[0] = Zero)

\* an accepted solution that charges at the first timestep, so that its
\* first inventory is above the initial level
C10_Witness ==
    /\ AcceptedSolution
    /\ Positive(solution.CP[0])
    /\ RGt(solution.LVL[0], solution.INIT)

\* the ledger of the accepted run
Ledger == optimization_results.operational_results
LedgerRows == 1..Len(Ledger)
LastRow == Ledger[Len(Ledger)]
\* the energy moved over the whole horizon, in MWh
total_charged_energy ==
    RSum([i \in LedgerRows |-> RMul(Ledger[i].Charging_Power_MW, data.params.TIMESTEP)])
total_discharged_energy ==
    RSum([i \in LedgerRows |-> RMul(Ledger[i].Discharging_Power_MW, data.params.TIMESTEP)])

\* C11: for every accepted solution the final Cumulative_NH3_Produced equals
\* the final Cumulative_NH3_Consumed, and the total discharged energy is the
\* total charged energy times the charging and the discharging efficiency
C11_NoInventoryMining ==
    optimization_results # None =>
        /\ LastRow.Cumulative_NH3_Produced = LastRow.Cumulative_NH3_Consumed
        /\ total_discharged_energy =
              RMul(RMul(data.params.CHARGING_EFFICIENCY, data.params.DISCHARGING_EFFICIENCY),
                   total_charged_energy)

\* a ledger that discharges from a positive initial level before it charges
C11_Witness ==
    /\ optimization_results # None
    /\ Positive(optimization_results.optimal_design.optimal_initial_level_tonnes)
    /\ \E i, j \in LedgerRows :
          /\ i < j
          /\ Positive(Ledger[i].NH3_Consumed_Tonnes)
          /\ Positive(Ledger[j].NH3_Produced_Tonnes)

\* C12: for a fixed series and fixed parameters, when the instance is solved
\* under two upper bounds B1 <= B2 of the capacity variable, the optimal
\* objective value under B2 exists and is at least the one under B1
C12_CapacityBoundMonotone ==
    (entry = "create_optimization_model" /\ Len(optima) = 2 /\ optima[1] # Infeasible) =>
        /\ RLe(capacity_bounds[1], capacity_bounds[2])
        /\ optima[2] # Infeasible
        /\ RLe(optima[1], optima[2])

\* two solves where the larger bound yields a strictly larger optimum
C12_Witness ==
    /\ entry = "create_optimization_model"
    /\ Len(optima) = 2
    /\ optima[1] # Infeasible /\ optima[2] # Infeasible
    /\ RLt(capacity_bounds[1], capacity_bounds[2])
    /\ RLt(optima[1], optima[2])

\* the instance whose price is 0 at every timestep, and the schedule that
\* never operates an empty storage of capacity 0
ZeroPrice == data # NoData /\ \A t \in Horizon : data.PRICE[t] = Zero
AllIdle(T) ==
    [CAP |-> Zero, INIT |-> Zero,
     CP |-> [t \in 0..(T - 1) |-> Zero], DP |-> [t \in 0..(T - 1) |-> Zero],
     ION |-> [t \in 0..(T - 1) |-> 0], DON |-> [t \in 0..(T - 1) |-> 0],
     LVL |-> [t \in 0..(T - 1) |-> Zero]]
\* the optimum of the zero-price instance of each configuration and horizon
ZeroPriceOutcome ==
    Tabulated([tech \in Technologies, tih \in TimeIntervals, T \in 1..MaxRows |->
        LET d == [T |-> T, PRICE |-> [t \in 0..(T - 1) |-> Zero],
                  params |-> static_params(tech, tih)]
        IN  [best |-> best_objective(d, FeasibleTable[tech, tih, T]),
             reported |-> NearOptimal(d, FeasibleTable[tech, tih, T])]])

\* C13: when the price is 0 at every timestep, for every horizon length the
\* optimal objective value is 0, the objective value of the solution the
\* solver reports as optimal is 0, and the all-idle schedule with capacity 0
\* and initial level 0 is among the optimal solutions
C13_ZeroPriceOptimum ==
    (results = <<"ok", "optimal">> /\ ZeroPrice) =>
        LET outcome == ZeroPriceOutcome[a2p_technology, time_interval_hours, data.T]
        IN  /\ outcome.best = Zero
            /\ AllIdle(data.T) \in outcome.reported
            /\ operational_profit_rule(data.params, data.PRICE, solution, data.T) = Zero
            /\ objective_value # NotComputed => objective_value = Zero

\* a zero-price run over the longest horizon in which the solver reported
\* the all-idle schedule with capacity 0 as optimal
C13_Witness ==
    /\ results = <<"ok", "optimal">>
    /\ ZeroPrice
    /\ data.T = MaxRows
    /\ solution = AllIdle(data.T)
    /\ objective_value = Zero

\* the two-timestep scenario: price = [0, 100], a timestep of 1 h, both
\* efficiencies 1, both maximum powers 10 MW, solved under the capacity
\* bound of the code
ScenarioInstance ==
    /\ entry = "create_optimization_model"
    /\ data.params = ScenarioParams
    /\ data.T = 2
    /\ data.PRICE[0] = FromInt(0) /\ data.PRICE[1] = FromInt(100)
    /\ optima # <<>>
    /\ capacity_bounds[Len(optima)] = FromInt(CapacityUpperBound)
\* the revenue that the discharge at t1 leaves unearned
closure_residual ==
    RMul(RMul(data.PRICE[1], RSub(data.params.MAXIMUM_DISCHARGING_POWER, solution.DP[1])),
         data.params.TIMESTEP)
\* tonnes of NH3 that hold 10 MWh
mass_of_10MWh == RMul(FromInt(10), data.params.NH3_CONVERSION_FACTOR)

\* C14: in the two-timestep scenario the solution reported as optimal
\* charges 10 MW at t0 and discharges at t1, its objective value is
\* 1000 * dt minus the residual forced by the cyclic closure (which is 0
\* here, so the discharge is 10 MW), it is the optimal objective value, and
\* the optimal capacity is at least the mass equivalent of 10 MWh
C14_TwoTimestepScenario ==
    ScenarioInstance =>
        /\ solution # NoSolution
        /\ solution.CP[0] = FromInt(10) /\ solution.DP[0] = Zero
        /\ solution.CP[1] = Zero /\ Positive(solution.DP[1])
        /\ objective_value = RSub(RMul(FromInt(1000), data.params.TIMESTEP), closure_residual)
        /\ closure_residual = Zero
        /\ optima[Len(optima)] = objective_value
        /\ RGe(solution.CAP, mass_of_10MWh)

\* the scenario solved, with an optimal capacity above the mass it cycles
C14_Witness ==
    /\ ScenarioInstance
    /\ solution # NoSolution
    /\ objective_value = FromInt(1000)
    /\ RGt(solution.CAP, mass_of_10MWh)

\* the inventory of row i recomputed from the ledger's own columns by the
\* mass-balance formula, in its per-row and in its cumulative form
level_from_rows(i) ==
    RAdd(optimization_results.optimal_design.optimal_initial_level_tonnes,
         RSum([j \in 1..i |-> RSub(Ledger[j].NH3_Produced_Tonnes,
                                    Ledger[j].NH3_Consumed_Tonnes)]))
level_from_cumulative(i) ==
    RSub(RAdd(optimization_results.optimal_design.optimal_initial_level_tonnes,
              Ledger[i].Cumulative_NH3_Produced),
         Ledger[i].Cumulative_NH3_Consumed)

\* C15: for every ledger produced from an accepted solution, the inventory
\* recomputed from the ledger's own columns by the mass-balance formula
\* equals NH3_Level_Tonnes at every row, in both forms of the formula
C15_LedgerRoundTrip ==
    optimization_results # None =>
        \A i \in LedgerRows :
            /\ level_from_rows(i) = Ledger[i].NH3_Level_Tonnes
            /\ level_from_cumulative(i) = Ledger[i].NH3_Level_Tonnes

\* a ledger of at least two rows whose inventory moves away from a positive
\* initial level
C15_Witness ==
    /\ optimization_results # None
    /\ Len(Ledger) >= 2
    /\ Positive(optimization_results.optimal_design.optimal_initial_level_tonnes)
    /\ \E i \in LedgerRows :
          /\ Positive(Ledger[i].Cumulative_NH3_Consumed)
          /\ Ledger[i].NH3_Level_Tonnes #
                optimization_results.optimal_design.optimal_initial_level_tonnes

\* C16: the cumulative columns of the ledger are the prefix sums of the
\* per-row columns in timestep order, and Cumulative_NH3_Produced and
\* Cumulative_NH3_Consumed never decrease from a row to the next
C16_CumulativeColumns ==
    optimization_results # None =>
        \A i \in LedgerRows :
            /\ Ledger[i].TimeStep = i - 1
            /\ Ledger[i].Cumulative_NH3_Produced =
                  RSum([j \in 1..i |-> Ledger[j].NH3_Produced_Tonnes])
            /\ Ledger[i].Cumulative_NH3_Consumed =
                  RSum([j \in 1..i |-> Ledger[j].NH3_Consumed_Tonnes])
            /\ Ledger[i].Cumulative_Net_Revenue =
                  RSum([j \in 1..i |-> Ledger[j].Net_Revenue])
            /\ i > 1 =>
                  /\ RLe(Ledger[i - 1].Cumulative_NH3_Produced,
                         Ledger[i].Cumulative_NH3_Produced)
                  /\ RLe(Ledger[i - 1].Cumulative_NH3_Consumed,
                         Ledger[i].Cumulative_NH3_Consumed)

\* a ledger whose Cumulative_Net_Revenue is negative at a row before the
\* last and decreases from a row to the next, while both cumulative masses
\* grow along the horizon
C16_Witness ==
    /\ optimization_results # None
    /\ \E i \in LedgerRows :
          i < Len(Ledger) /\ RLt(Ledger[i].Cumulative_Net_Revenue, Zero)
    /\ \E i \in LedgerRows :
          i > 1 /\ RLt(Ledger[i].Cumulative_Net_Revenue, Ledger[i - 1].Cumulative_Net_Revenue)
    /\ Positive(LastRow.Cumulative_NH3_Produced)
    /\ Positive(LastRow.Cumulative_NH3_Consumed)

\* the input columns as the optimizer receives them, and the rows of the
\* input that one window of time_interval_hours spans
input_column(c) == [i \in 1..Len(price_in) |-> timeseries_rows(price_in)[i][c]]
rows_in_window == RDiv(time_interval_hours, original_interval)
\* the mean of the rows of column col in the j-th window of w rows
window_mean(col, w, j) ==
    LET lo == (j - 1) * w + 1
        hi == IF j * w < Len(col) THEN j * w ELSE Len(col)
    IN  RDiv(RSum(SubSeq(col, lo, hi)), FromInt(hi - lo + 1))
\* prepare_data has been called on a series that has every required column
\* and whose sampling interval divides the configured interval
DataBindingDone ==
    /\ entry \in {"direct", "scenario"}
    /\ columns = RequiredColumns
    /\ Len(price_in) >= 2
    /\ pc \notin {"scenario_load", "construct", "create_model", "prepare_data"}
    /\ model_created
    /\ Den(rows_in_window) = 1

\* C17: whenever the input interval differs from time_interval_hours, the
\* bound series are the input columns averaged over consecutive windows of
\* exactly time_interval_hours, one horizon index per window; when the
\* intervals are equal the bound series are the input, row for row
C17_ResamplesToConfiguredInterval ==
    DataBindingDone =>
        /\ data # NoData
        /\ LET w == Num(rows_in_window)
               windows == (Len(price_in) + w - 1) \div w
           IN  /\ data.T = windows
               /\ \A c \in {"PRICE", "DEMAND", "WIND", "CURTAILMENT", "CARBON_BASED_FUELS"} :
                     \A t \in 0..(windows - 1) :
                         data[c][t] = (IF time_interval_hours = original_interval
                                       THEN input_column(c)[t + 1]
                                       ELSE window_mean(input_column(c), w, t + 1))

\* hours between the first timestamp of the input and the timestamp of
\* horizon index t
horizon_timestamp(t) == RMul(FromInt(t), time_interval_hours)

\* C18: the ledger has one row per timestep of the bound horizon with
\* TimeStep = 0..T-1 in order, and row t carries the bound Price, Demand,
\* Wind, Curtailment and Carbon_based_fuels of index t and the timestamp of
\* horizon index t, with and without resampling
C18_LedgerEchoesHorizon ==
    (optimization_results # None /\ columns = RequiredColumns) =>
        /\ Len(Ledger) = data.T
        /\ \A i \in LedgerRows :
              /\ Ledger[i].TimeStep = i - 1
              /\ Ledger[i].Price = data.PRICE[i - 1]
              /\ Ledger[i].Demand = data.DEMAND[i - 1]
              /\ Ledger[i].Wind = data.WIND[i - 1]
              /\ Ledger[i].Curtailment = data.CURTAILMENT[i - 1]
              /\ Ledger[i].Carbon_based_fuels = data.CARBON_BASED_FUELS[i - 1]
              /\ Ledger[i].Time = <<"datetime", horizon_timestamp(i - 1)>>


(***************************************************************************)
(* C20.  Degeneracy guards: whatever the accepted ledger (no curtailment,  *)
(* no charging or discharging hour, no annual output), every value that    *)
(* the downstream ratio computations hand to the summary report            *)
(* (curtailment percentages and ratios, LCOA, LCOE, LCOS, annual_fuel_cost,*)
(* annual_cycles) is a defined value: none is NaN.                         *)
(***************************************************************************)
ReportedValues ==
    IF report = None THEN {}
    ELSE UNION {{report[part][k] : k \in DOMAIN report[part]} : part \in DOMAIN report}

C20_DegeneracyGuards ==
    pc = "scenario_done" /\ report # None => NaN \notin ReportedValues


(***************************************************************************)
(* C19.  Configuration errors are never silently defaulted: a component    *)
(* that is handed an a2p_technology outside the three supported names, or  *)
(* a cost-index year outside the table, ends with an error and returns no  *)
(* value in its place.                                                     *)
(***************************************************************************)
Misconfigured ==
    \/ entry \in TechnologyComponents /\ a2p_technology \notin Technologies
    \/ entry \in YearComponents /\ \E i \in DOMAIN years : years[i] \notin DOMAIN CEPCI_DICT

C19_ConfigurationErrorsRejected ==
    pc # "call" /\ Misconfigured => raised = "ValueError" /\ returned = Pending


(***************************************************************************)
(* C21.  Each optimize() call builds a new model and a new instance and    *)
(* shares no solve state with other calls: whatever calls came before and  *)
(* however they ended, the data bound, the solution loaded and the value   *)
(* returned are those of a newly constructed optimizer of the same         *)
(* configuration given the same series and the same solver outcome.        *)
(***************************************************************************)
\* what a newly constructed optimizer binds and returns for the series of
\* the call in progress
FreshData ==
    prepare_data(a2p_technology, columns, time_interval_hours, original_interval, price_in)
FreshResult ==
    IF AcceptedOutcome
    THEN process_results(FreshData, solution, columns, original_interval,
                         calculate_total_system_costs(a2p_technology, storage_capacity))
    ELSE None

C21_CallsAreIndependent ==
    /\ data # NoData => data = FreshData
    /\ solution # NoSolution =>
          solution \in FeasibleTable[a2p_technology, time_interval_hours, FreshData.T]
    /\ pc = "returned" => returned = FreshResult
    /\ pc = "raised" =>
          raised = prepare_data_outcome(columns, time_interval_hours,
                                        original_interval, price_in)

\* a call has failed after an earlier call on the same optimizer succeeded
C21_Witness ==
    /\ Len(call_log) = 1
    /\ "operational_results" \in DOMAIN call_log[1]
    /\ pc = "returned"
    /\ returned = None


(***************************************************************************)
(* C22.  No retries: one optimize() invocation invokes the solver exactly  *)
(* once.  After a failed solve the invocation ends with the failure        *)
(* result: it does not solve again, and the data bound, the horizon and    *)
(* the capacity bound are those of the one solve.                          *)
(***************************************************************************)
SolveDone == pc \in {"check_status", "process_results", "returned", "scenario_done"}
FailedSolve == results # NoResults /\ ~AcceptedOutcome

C22_NoRetries ==
    /\ solver_calls \in {0, 1}
    /\ solver_calls = 1 <=> results # NoResults
    /\ SolveDone => solver_calls = 1
    /\ FailedSolve =>
          /\ pc \in {"check_status", "returned", "scenario_done"}
          /\ pc # "check_status" => returned = None
          /\ data = prepare_data(a2p_technology, columns, time_interval_hours,
                                 original_interval, price_in)
          /\ capacity_bounds = <<FromInt(CapacityUpperBound)>>
          /\ solution = NoSolution

\* optimize() has returned None after its one solve ended with a solver
\* status other than ok
C22_Witness ==
    /\ pc = "returned"
    /\ returned = None
    /\ results # NoResults
    /\ results[1] = "error"
    /\ solver_calls = 1


(***************************************************************************)
(* C23.  The model is feasible for every input series and its optimum is   *)
(* never negative: whatever the prices (negative ones included), the       *)
(* horizon and the efficiencies, the all-idle schedule with capacity and   *)
(* initial level 0 satisfies every constraint and has objective 0, so the  *)
(* optimal objective value is at least 0, and so is the objective value of *)
(* a solution reported as optimal.                                         *)
(***************************************************************************)
C23_IdleIsFeasible ==
    /\ pc = "solve" =>
          LET feasible == FeasibleTable[a2p_technology, time_interval_hours, data.T]
              idle == AllIdle(data.T)
          IN  /\ idle \in feasible
              /\ \A t \in Horizon : step_constraints(data.params, idle, t)
              /\ design_constraints(idle)
              /\ cyclical_storage_constraint_rule(idle, data.T)
              /\ operational_profit_rule(data.params, data.PRICE, idle, data.T) = Zero
              /\ RGe(best_objective(data, feasible), Zero)
    /\ (results = <<"ok", "optimal">> /\ solution # NoSolution) =>
          RGe(operational_profit_rule(data.params, data.PRICE, solution, data.T), Zero)

\* an instance over the longest horizon, with a negative price, is about to
\* be solved
C23_Witness ==
    /\ pc = "solve"
    /\ data.T = MaxRows
    /\ \E t \in Horizon : RLt(data.PRICE[t], Zero)


(***************************************************************************)
(* C24.  Rotation invariance: the initial level is a free variable tied to *)
(* the inventory of the last timestep, so the optimal objective value of a *)
(* price series is that of each of its cyclic rotations, and an optimal    *)
(* schedule rotated by the same shift is a feasible, optimal schedule of   *)
(* the rotated problem.                                                    *)
(***************************************************************************)
\* the series that starts k timesteps later and wraps around
rotated(series, T, k) == [t \in 0..(T - 1) |-> series[(t + k) % T]]
\* the schedule s seen from timestep k: its initial level is the inventory
\* that s holds when timestep k begins
rotated_schedule(s, T, k) ==
    [CAP |-> s.CAP,
     INIT |-> IF k = 0 THEN s.INIT ELSE s.LVL[k - 1],
     CP |-> rotated(s.CP, T, k), DP |-> rotated(s.DP, T, k),
     ION |-> rotated(s.ION, T, k), DON |-> rotated(s.DON, T, k),
     LVL |-> rotated(s.LVL, T, k)]

C24_RotationInvariance ==
    (entry = "create_optimization_model" /\ Len(optima) >= 1) =>
        LET B == capacity_bounds[Len(optima)]
            optimum == optima[Len(optima)]
        IN  \A k \in 0..(data.T - 1) :
               LET outcome == ModelSolveTable[data.params, rotated(data.PRICE, data.T, k), B]
               IN  IF optimum = Infeasible
                   THEN outcome = Infeasible
                   ELSE /\ outcome # Infeasible
                        /\ outcome.best = optimum
                        /\ rotated_schedule(solution, data.T, k)
                               \in ModelFeasibleTable[data.params, data.T, B]
                        /\ <<rotated_schedule(solution, data.T, k), objective_value>>
                               \in outcome.reported

\* a series over the longest horizon whose first and last prices differ has
\* been solved with a positive optimum
C24_Witness ==
    /\ entry = "create_optimization_model"
    /\ Len(optima) >= 1
    /\ data.T = MaxRows
    /\ data.PRICE[0] # data.PRICE[data.T - 1]
    /\ optima[Len(optima)] # Infeasible
    /\ RGt(objective_value, Zero)
    /\ solution.INIT # solution.LVL[0]


(***************************************************************************)
(* C25.  The reported optimal_capacity_tonnes is the minimal sufficient    *)
(* storage size of the reported schedule: in every accepted optimal        *)
(* solution it equals the peak of NH3_Level_Tonnes over the horizon.       *)
(* The objective has no term in the capacity, so a solution stays optimal  *)
(* whatever capacity between its peak level and the bound it carries.      *)
(***************************************************************************)
OptimalResultReturned ==
    /\ pc = "returned"
    /\ results = <<"ok", "optimal">>
    /\ returned # None
\* the largest inventory of the returned ledger
peak_level(ledger) ==
    CHOOSE p \in {ledger[i].NH3_Level_Tonnes : i \in DOMAIN ledger} :
        \A i \in DOMAIN ledger : RLe(ledger[i].NH3_Level_Tonnes, p)

C25_CapacityIsPeakLevel ==
    OptimalResultReturned =>
        returned.optimal_design.optimal_capacity_tonnes
            = peak_level(returned.operational_results)

\* an exactly optimal solution (objective equal to the optimum, not only
\* within the gap) is returned with a capacity above its peak level
C25_OversizedOptimum ==
    /\ OptimalResultReturned
    /\ objective_value
           = best_objective(data, FeasibleTable[a2p_technology, time_interval_hours, data.T])
    /\ RGt(returned.optimal_design.optimal_capacity_tonnes,
           peak_level(returned.operational_results))


(***************************************************************************)
(* C26.  Non-interference of the constructor's storage_capacity: two       *)
(* optimizers that differ only in that argument return, for the same input *)
(* series and the same solver outcome, identical optimize() results: same  *)
(* ledger, same optimal design and same final economics, and they fail     *)
(* alike.                                                                  *)
(***************************************************************************)
\* what an optimizer constructed with storage capacity c returns for the
\* series of the call in progress and the solver outcome of this call
ResultWithStorageCapacity(c) ==
    IF AcceptedOutcome
    THEN process_results(FreshData, solution, columns, original_interval,
                         calculate_total_system_costs(a2p_technology, c))
    ELSE None

CallFinished == pc \in {"returned", "raised"}
\* the outcomes of the calls made so far on this optimizer, oldest first
CallsSoFar == IF CallFinished THEN Append(call_log, CallOutcome) ELSE call_log
Successful(outcome) == "operational_results" \in DOMAIN outcome
MostRecentSuccess(calls) ==
    LET successes == {i \in DOMAIN calls : Successful(calls[i])}
    IN  IF successes = {} THEN None
        ELSE calls[CHOOSE i \in successes : \A j \in successes : j <= i]

C27_HoldsMostRecentSuccess ==
    (entry = "session" /\ pc # "construct") =>
        /\ optimization_results = MostRecentSuccess(CallsSoFar)
        /\ (pc = "returned" /\ returned # None) => optimization_results = returned

\* a call has failed after a success: the attribute still holds the
\* earlier call's results
C27_Witness ==
    /\ entry = "session"
    /\ Len(call_log) = 1
    /\ Successful(call_log[1])
    /\ pc = "returned"
    /\ returned = None
    /\ optimization_results = call_log[1]


(***************************************************************************)
(* C28.  The curtailment analysis partitions the curtailment periods of an *)
(* accepted solution's ledger by battery state: each row with              *)
(* Curtailment > 0 is charging, discharging or idle and only one of them,  *)
(* the three hour counts add up to curtailment_hours, and the three        *)
(* percentages add up to 100 when there is a curtailment period and are    *)
(* all 0 otherwise.                                                        *)
(***************************************************************************)
\* how many of the three states the ledger row is in
battery_states(row) ==
    (IF RGt(row.Charging_Power_MW, Zero) THEN 1 ELSE 0)
    + (IF RGt(row.Discharging_Power_MW, Zero) THEN 1 ELSE 0)
    + (IF row.Charging_Power_MW = Zero /\ row.Discharging_Power_MW = Zero THEN 1 ELSE 0)

C28_CurtailmentPartition ==
    /\ (pc = "returned" /\ returned # None) =>
          \A i \in DOMAIN returned.operational_results :
             battery_states(returned.operational_results[i]) = 1
    /\ report # None =>
          LET c == report.curtailment_results
              pct == RAdd(c.pct_curtailment_periods_charging,
                          RAdd(c.pct_curtailment_periods_discharging,
                               c.pct_curtailment_periods_idle))
          IN  /\ RAdd(c.charging_during_curtailment_hours,
                      RAdd(c.discharging_during_curtailment_hours,
                           c.idle_during_curtailment_hours)) = c.curtailment_hours
              /\ RLe(c.curtailment_hours, c.total_hours)
              /\ IF RGt(c.curtailment_hours, Zero)
                 THEN pct = FromInt(100)
                 ELSE /\ c.pct_curtailment_periods_charging = Zero
                      /\ c.pct_curtailment_periods_discharging = Zero
                      /\ c.pct_curtailment_periods_idle = Zero

\* a reported ledger charges during a curtailment period and has a period
\* without curtailment
C28_Witness ==
    /\ report # None
    /\ RGt(report.curtailment_results.charging_during_curtailment_hours, Zero)
    /\ RLt(report.curtailment_results.curtailment_hours,
           report.curtailment_results.total_hours)


(***************************************************************************)
(* C29.  Flag/power agreement in the ledger: in every row of every         *)
(* accepted solution Is_Charging = 1 exactly when Charging_Power_MW > 0    *)
(* and Is_Discharging = 1 exactly when Discharging_Power_MW > 0, so the    *)
(* hours counted from the flags agree with the hours counted from the      *)
(* powers.  With the thresholds at 0 the minimum-power rules read          *)
(* power >= 0, so a raised flag does not force a positive power.           *)
(***************************************************************************)
\* the hours of a ledger are its row counts times the one timestep length
flag_hours(ledger, flag) ==
    RMul(RSum([i \in DOMAIN ledger |-> FromInt(ledger[i][flag])]), time_interval_hours)
power_hours(ledger, power) ==
    RMul(FromInt(count_rows(positive(column_of(ledger, power)), Len(ledger))),
         time_interval_hours)

C29_FlagsAgreeWithPowers ==
    (pc = "returned" /\ returned # None) =>
        LET ledger == returned.operational_results
        IN  /\ \A i \in DOMAIN ledger :
                  /\ ledger[i].Is_Charging = 1 <=> RGt(ledger[i].Charging_Power_MW, Zero)
                  /\ ledger[i].Is_Discharging = 1
                        <=> RGt(ledger[i].Discharging_Power_MW, Zero)
            /\ flag_hours(ledger, "Is_Charging") = power_hours(ledger, "Charging_Power_MW")
            /\ flag_hours(ledger, "Is_Discharging")
                  = power_hours(ledger, "Discharging_Power_MW")

\* an exactly optimal solution is returned with a row whose charging flag is
\* raised while its charging power is 0
C29_FlagWithoutPower ==
    /\ pc = "returned"
    /\ returned # None
    /\ results = <<"ok", "optimal">>
    /\ objective_value
           = best_objective(data, FeasibleTable[a2p_technology, time_interval_hours, data.T])
    /\ \E i \in DOMAIN returned.operational_results :
          /\ returned.operational_results[i].Is_Charging = 1
          /\ returned.operational_results[i].Charging_Power_MW = Zero


(***************************************************************************)
(* C30.  For every ledger and every supported technology, the number of    *)
(* electrolyser stack replacements of the operational summary              *)
(* (num_electrolyser_replacements) is the number of replacements whose     *)
(* present value is in the replacement cost of the LCOA and of the LCOS of *)
(* the same scenario, and every priced replacement falls within the        *)
(* project lifetime.                                                       *)
(***************************************************************************)
\* the number of replacements summed in a replacement cost
priced_in(pv_replacements) == IF pv_replacements = Zero THEN 0 ELSE pv_replacements[3]
\* the year of the last replacement priced in a replacement cost
last_priced_year(pv_replacements, annual_charging_hours) ==
    IF pv_replacements = Zero THEN Zero
    ELSE RDiv(FromInt(pv_replacements[3] * pv_replacements[2]), annual_charging_hours)

C30_ReplacementCountsAgree ==
    report # None =>
        LET summary == report.operational_metrics
            lcoa_pv == report.lcoa_results.electrolyser_replacement_pv
        IN  /\ summary.num_electrolyser_replacements = FromInt(priced_in(lcoa_pv))
            /\ RLe(last_priced_year(lcoa_pv, summary.annual_charging_hours),
                   FromInt(LIFETIME_YEARS))

\* the summary of a hydrogen-combustion scenario counts fewer replacements
\* than its LCOA prices
C30_SummaryCountsFewer ==
    /\ report # None
    /\ a2p_technology = "h2_combustion"
    /\ RLt(report.operational_metrics.num_electrolyser_replacements,
           FromInt(priced_in(report.lcoa_results.electrolyser_replacement_pv)))

====
